---- MODULE Spec2Model ----
(***************************************************************************)
(* The candidate-submission function (src/infra/compute/index.ts): the     *)
(* HTTP handler submitCandidate, the orchestrator createCandidatePR and    *)
(* the contact archiver storeContactInfo, run by concurrent invocations    *)
(* against the fork repository, the main repository and the blob store.    *)
(*                                                                         *)
(* A string the code takes apart character by character (candidate name,   *)
(* file name, correlation id) is a sequence of one-character strings, the  *)
(* empty string being << >>.  Every other string is a TLA+ string.         *)
(***************************************************************************)
EXTENDS Integers, Sequences, FiniteSets, TLC

(***************************************************************************)
(* Character helpers                                                       *)
(***************************************************************************)
UpperCase == <<"A","B","C","D","E","F","G","H","I","J","K","L","M",
               "N","O","P","Q","R","S","T","U","V","W","X","Y","Z">>

LowerCase == <<"a","b","c","d","e","f","g","h","i","j","k","l","m",
               "n","o","p","q","r","s","t","u","v","w","x","y","z">>

DigitChar == <<"1","2","3","4","5","6","7","8","9">>

\* [a-z0-9]
Alnum == {LowerCase[k] : k \in 1..26} \cup {"0"} \cup {DigitChar[k] : k \in 1..9}

\* \s
Whitespace == {" ", "\t", "\n"}

toLowerCaseChar(c) ==
    IF \E k \in 1..26 : UpperCase[k] = c
    THEN LowerCase[CHOOSE k \in 1..26 : UpperCase[k] = c]
    ELSE c

\* String.prototype.toLowerCase
toLowerCase(s) == [k \in 1..Len(s) |-> toLowerCaseChar(s[k])]

RECURSIVE Concat(_)
Concat(ss) == IF ss = << >> THEN << >> ELSE Head(ss) \o Concat(Tail(ss))

\* s.replace(/[M]+/g, rep): every maximal run of characters of M becomes rep
ReplaceRunsIn(s, M, rep) ==
    Concat([k \in 1..Len(s) |->
              IF s[k] \in M
              THEN (IF k > 1 /\ s[k-1] \in M THEN << >> ELSE rep)
              ELSE <<s[k]>>])

\* s.replace(/[^Keep]+/g, rep): every maximal run of characters outside Keep becomes rep
ReplaceRunsNotIn(s, Keep, rep) ==
    Concat([k \in 1..Len(s) |->
              IF s[k] \notin Keep
              THEN (IF k > 1 /\ s[k-1] \notin Keep THEN << >> ELSE rep)
              ELSE <<s[k]>>])

\* s.replace(/^-+|-+$/g, '')
TrimDashes(s) ==
    LET keep == {k \in 1..Len(s) : s[k] # "-"}
        first == CHOOSE k \in keep : \A j \in keep : k <= j
        last == CHOOSE k \in keep : \A j \in keep : j <= k
    IN  IF keep = {} THEN << >> ELSE SubSeq(s, first, last)

\* String.prototype.lastIndexOf, 0-based, -1 when absent
lastIndexOf(s, c) ==
    LET at == {k \in 1..Len(s) : s[k] = c}
    IN  IF at = {} THEN -1 ELSE (CHOOSE k \in at : \A j \in at : j <= k) - 1

\* String.prototype.endsWith
endsWith(s, suffix) ==
    /\ Len(suffix) <= Len(s)
    /\ SubSeq(s, Len(s) - Len(suffix) + 1, Len(s)) = suffix

\* Mutant: the dashes at the two ends of the name are kept.
normalizeFilenameWithoutTrim(filename) ==
    LET lastDot == lastIndexOf(filename, ".")
        name == IF lastDot > 0 THEN SubSeq(filename, 1, lastDot) ELSE filename
        ext == IF lastDot > 0 THEN SubSeq(filename, lastDot + 1, Len(filename)) ELSE << >>
    IN  ReplaceRunsNotIn(toLowerCase(name), Alnum, <<"-">>) \o toLowerCase(ext)

normalizeFilename(filename) ==
    LET lastDot == lastIndexOf(filename, ".")
        name == IF lastDot > 0 THEN SubSeq(filename, 1, lastDot) ELSE filename
        ext == IF lastDot > 0 THEN SubSeq(filename, lastDot + 1, Len(filename)) ELSE << >>
        normalized == TrimDashes(ReplaceRunsNotIn(toLowerCase(name), Alnum, <<"-">>))
    IN  normalized \o toLowerCase(ext)

\* isSVG, the helper of createCandidatePR
isSVG(filename) == endsWith(toLowerCase(filename), <<".","s","v","g">>)

\* img.path.split('/').pop() || img.path
originalFilenameOf(path) ==
    LET lastSlash == lastIndexOf(path, "/")
        popped == SubSeq(path, lastSlash + 2, Len(path))
    IN  IF popped # << >> THEN popped ELSE path

\* submission.candidate.toLowerCase().replace(/\s+/g, "-").replace(/[^a-z0-9-]/g, "")
slugOf(candidate) ==
    SelectSeq(ReplaceRunsIn(toLowerCase(candidate), Whitespace, <<"-">>),
              LAMBDA c : c \in Alnum \cup {"-"})

\* correlationId.slice(0, 8)
SliceLen == 8

\* Mutant: the branch name is derived from the candidate name alone.
branchNameOfSlugOnly(slug, correlationId) == <<"f","o","r","m","-">> \o slug

branchNameOf(slug, correlationId) ==
    <<"f","o","r","m","-">> \o slug \o <<"-">>
        \o SubSeq(correlationId, 1, IF Len(correlationId) < SliceLen
                                    THEN Len(correlationId) ELSE SliceLen)

\* submission.electionDate.split('-')[0]
yearOf(electionDate) ==
    LET dashes == {k \in 1..Len(electionDate) : electionDate[k] = "-"}
    IN  IF dashes = {} THEN electionDate
        ELSE SubSeq(electionDate, 1, (CHOOSE k \in dashes : \A j \in dashes : k <= j) - 1)

\* `src/content/english/candidates/${year}/${slug}`
candidatePathOf(year, slug) ==
    <<"src/content/english/candidates/">> \o year \o <<"/">> \o slug


(***************************************************************************)
(* Values                                                                  *)
(***************************************************************************)
\* JavaScript's undefined, for a field that holds a sequence of strings
Undefined == <<"undefined">>

Invocations == {1, 2}

\* The identifiers crypto.randomUUID can return, the first SliceLen characters
\* of two of them being the same.
NumUUIDs == 3

UUIDPrefix == <<"a", "a", "b", "b">>
UUIDSuffix == <<"1", "2", "1", "2">>

UUIDs == {[k \in 1..SliceLen |-> UUIDPrefix[n]] \o <<"-", UUIDSuffix[n]>> : n \in 1..NumUUIDs}

CandidateName == <<"J","o"," ","K">>
ElectionDate == <<"2","0","2","6","-","1","1","-","0","3">>

PngImage == [path |-> <<"i","m","a","g","e","s","/","M","y"," ","P",".","P","N","G">>,
             content |-> "base64-png"]
SvgImage == [path |-> <<"i","m","a","g","e","s","/","l","o","g","o",".","s","v","g">>,
             content |-> "base64-svg"]

About == <<"a", " ", "\"", "b", "\"">>

\* A markdown body is a sequence of tokens: a run of text, or one image
\* reference ![alt](target) whose alt text has no ']' and whose target has
\* no ')'.
Text(text) == [kind |-> "text", alt |-> text, target |-> << >>]
Image(alt, target) == [kind |-> "image", alt |-> alt, target |-> target]

Body == << Text("# Policy"), Image("photo", PngImage.path), Text("\n") >>

\* avatarImage, titleImage and additionalImages of the submissions explored:
\* no file, two binary files, a text file beside a binary one.
FileChoices ==
    { [avatarImage |-> "", titleImage |-> "", additionalImages |-> << >>],
      [avatarImage |-> "data:image/png;base64,AA", titleImage |-> "data:image/png;base64,BB",
       additionalImages |-> << >>],
      [avatarImage |-> "", titleImage |-> "", additionalImages |-> <<SvgImage, PngImage>>] }

\* CandidateSubmission
SubmissionOf(candidate, title, contactEmail, turnstileToken, content, fc) ==
    [ title |-> title, candidate |-> candidate, party |-> "Independent",
      electionDate |-> ElectionDate, categories |-> <<"School Board">>,
      tags |-> <<"Lake Park">>, about |-> About, website |-> "",
      content |-> content,
      titleImage |-> fc.titleImage, avatarImage |-> fc.avatarImage,
      additionalImages |-> fc.additionalImages,
      contactEmail |-> contactEmail, contactPhone |-> "555", contactNotes |-> "",
      submitterName |-> "Sam", submitterRelationship |-> "self",
      turnstileToken |-> turnstileToken ]

NoFiles == [avatarImage |-> "", titleImage |-> "", additionalImages |-> << >>]

EmptySubmission == SubmissionOf(<< >>, "", "", "", << >>, NoFiles)

\* Mutant: the check of the content field is left out.
validationErrorsWithoutContent(submission) ==
    (IF submission.candidate = << >> THEN <<"Candidate name is required">> ELSE << >>)
    \o (IF submission.title = "" THEN <<"Position title is required">> ELSE << >>)
    \o (IF submission.contactEmail = "" THEN <<"Contact email is required">> ELSE << >>)
    \o (IF submission.turnstileToken = "" THEN <<"Turnstile token is required">> ELSE << >>)

\* Mutant: the checks stop at the first empty field.
validationErrorsFirstOnly(submission) ==
    IF submission.candidate = << >> THEN <<"Candidate name is required">>
    ELSE IF submission.title = "" THEN <<"Position title is required">>
    ELSE IF submission.contactEmail = "" THEN <<"Contact email is required">>
    ELSE IF submission.turnstileToken = "" THEN <<"Turnstile token is required">>
    ELSE IF submission.content = << >> THEN <<"Content is required">>
    ELSE << >>

\* submitCandidate's required-field checks: the errors array
validationErrors(submission) ==
    (IF submission.candidate = << >> THEN <<"Candidate name is required">> ELSE << >>)
    \o (IF submission.title = "" THEN <<"Position title is required">> ELSE << >>)
    \o (IF submission.contactEmail = "" THEN <<"Contact email is required">> ELSE << >>)
    \o (IF submission.turnstileToken = "" THEN <<"Turnstile token is required">> ELSE << >>)
    \o (IF submission.content = << >> THEN <<"Content is required">> ELSE << >>)

\* Every combination of empty and non-empty required fields; the files vary
\* for the submissions that pass validation.
Submissions ==
    { s \in { SubmissionOf(c, t, e, k, b, fc) :
                c \in {<< >>, CandidateName}, t \in {"", "Mayor"},
                e \in {"", "jo@example.org"}, k \in {"", "token"},
                b \in {<< >>, Body}, fc \in FileChoices } :
        \/ validationErrors(s) = << >>
        \/ /\ s.avatarImage = ""
           /\ s.titleImage = ""
           /\ s.additionalImages = << >> }

\* process.env.ALLOWED_ORIGINS, split at the commas
ALLOWED_ORIGINS == <<"https://www.democracycandidate.us", "http://localhost:1313">>

\* The Origin header of a request, "" when it has none
Origins == {"", "https://www.democracycandidate.us", "http://localhost:1313",
            "https://elsewhere.example"}

NoRequest ==
    [method |-> "", origin |-> "", parseable |-> FALSE, submission |-> EmptySubmission]

\* The requests explored: a preflight request from every origin, an
\* unparseable POST from an origin that is not listed, the POSTs that fail
\* validation without an Origin header, the others from a listed origin.
Requests ==
    { [method |-> "OPTIONS", origin |-> o, parseable |-> FALSE,
       submission |-> EmptySubmission] : o \in Origins }
    \cup { [method |-> "POST", origin |-> "https://elsewhere.example", parseable |-> FALSE,
             submission |-> EmptySubmission] }
    \cup { [method |-> "POST", parseable |-> TRUE, submission |-> s,
             origin |-> IF validationErrors(s) # << >> THEN "" ELSE ALLOWED_ORIGINS[2]] :
             s \in Submissions }

\* the headers of a response that is not sent yet
NoHeaders == [allowOrigin |-> "", allowMethods |-> "", allowHeaders |-> "", maxAge |-> ""]

getCorsHeaders(req) ==
    LET origin == req.origin
        allowedOrigin == IF \E k \in 1..Len(ALLOWED_ORIGINS) : ALLOWED_ORIGINS[k] = origin
                         THEN origin ELSE ALLOWED_ORIGINS[1]
    IN  [allowOrigin |-> allowedOrigin, allowMethods |-> "POST, OPTIONS",
         allowHeaders |-> "Content-Type", maxAge |-> "86400"]

\* SubmissionResponse with its HTTP status; status 0: nothing returned yet
NoResponse ==
    [ status |-> 0, success |-> FALSE, message |-> "", correlationId |-> Undefined,
      pullRequestUrl |-> Undefined, errors |-> << >> ]

\* the 'let prUrl' of submitCandidate
MockPrUrl == <<"http://localhost:mock-pr-url">>

\* Repositories: default branches, and the fork's first commit
ForkDefaultBranch == <<"m","a","i","n">>
MainDefaultBranch == <<"m","a","s","t","e","r">>
BaseCommit == <<"commit", "base">>
\* the head of the main repository's default branch
MainCommit == <<"commit", "main">>

BaseTree == <<"tree", "base">>

NoPlan ==
    [ slug |-> << >>, branchName |-> << >>, candidatePath |-> << >>,
      formRepoDefault |-> Undefined, refSha |-> Undefined, mainRepoDefault |-> Undefined,
      files |-> << >>, avatarFilename |-> Undefined, imageFilename |-> Undefined,
      baseTree |-> Undefined, newTree |-> Undefined, commit |-> Undefined ]

(***************************************************************************)
(* State                                                                   *)
(***************************************************************************)
VARIABLES
    IS_LOCAL_DEV,             \* process.env.IS_LOCAL_DEV === "true"
    GITHUB_PRIVATE_KEY_SAFE,  \* parseGitHubPrivateKey's result: "pem" or "null"
    pc,                       \* each invocation's await point
    request,                  \* each invocation's HttpRequest
    response,                 \* each invocation's HttpResponseInit: status and jsonBody
    headers,                  \* each invocation's HttpResponseInit: headers
    correlationId,            \* submitCandidate's correlationId
    prUrl,                    \* submitCandidate's prUrl
    plan,                     \* createCandidatePR's locals
    blobCalls,                \* the promises of files.map: one per file
    trace,                    \* history: the external calls of each invocation
    mints,                    \* history: what randomUUID has returned to each invocation
    forkRefs,                 \* fork repository: ref name -> commit sha
    forkBlobs,                \* fork repository: blob objects
    forkTrees,                \* fork repository: tree objects
    forkCommits,              \* fork repository: commit objects
    pulls,                    \* main repository: pull requests, by number
    mainRefs,                 \* main repository: ref name -> commit sha
    containerExists,          \* blob store: the contact container
    contactBlobs,             \* blob store: the blobs, [name, content]
    original,                 \* normalizeFilename on its own: the argument
    normalized,               \* normalizeFilename on its own: the results of applying it
                              \* to the argument, then to its own result
    markdown,                 \* normalizeMarkdownImagePaths on its own: the body
    assets,                   \* normalizeMarkdownImagePaths on its own: additionalImages
    rewritten,                \* normalizeMarkdownImagePaths on its own: << >>, then the result
    submitted,                \* generateFrontmatter on its own: submission
    avatarName,               \* generateFrontmatter on its own: avatarFilename
    imageName,                \* generateFrontmatter on its own: imageFilename
    frontmatter,              \* generateFrontmatter on its own: << >>, then the result
    editor,                   \* the form: the editor's value and the two image fields
    payload,                  \* the form: << >>, then the payload it submits
    fileSet,                  \* createCandidatePR's files for that payload: << >>, then files
    validated,                \* createCandidatePR's first lines on their own: submission
    planned,                  \* createCandidatePR's first lines on their own: << >>, then
                              \* what they give
    configured,               \* getCorsHeaders on its own: process.env.ALLOWED_ORIGINS
    requestOrigin,            \* getCorsHeaders on its own: the request's Origin header
    corsOrigin,               \* getCorsHeaders on its own: << >>, then
                              \* Access-Control-Allow-Origin
    currentTags,              \* the form's tag manager: currentTags
    tagEntry,                 \* the form's tag manager: tagEntry.value
    formattedTags             \* the form's submit handler: << >>, then formattedTags

env == <<IS_LOCAL_DEV, GITHUB_PRIVATE_KEY_SAFE>>
handler == <<pc, request, response, headers, correlationId, prUrl, plan, blobCalls>>
fork == <<forkRefs, forkBlobs, forkTrees, forkCommits>>
store == <<containerExists, contactBlobs>>
filenames == <<original, normalized>>
bodies == <<markdown, assets, rewritten>>
frontmatters == <<submitted, avatarName, imageName, frontmatter>>
forms == <<editor, payload, fileSet>>
plans == <<validated, planned>>
cors == <<configured, requestOrigin, corsOrigin>>
tagManager == <<currentTags, tagEntry, formattedTags>>
pure == <<filenames, bodies, frontmatters, forms, plans, cors, tagManager>>
vars == <<env, handler, trace, mints, fork, pulls, mainRefs, store, pure>>

\* the function app after its module is loaded, no request received yet
InitApp ==
    /\ IS_LOCAL_DEV \in BOOLEAN
    /\ GITHUB_PRIVATE_KEY_SAFE \in {"null", "pem"}
    /\ pc = [i \in Invocations |-> "idle"]
    /\ request = [i \in Invocations |-> NoRequest]
    /\ response = [i \in Invocations |-> NoResponse]
    /\ headers = [i \in Invocations |-> NoHeaders]
    /\ correlationId = [i \in Invocations |-> Undefined]
    /\ prUrl = [i \in Invocations |-> << >>]
    /\ plan = [i \in Invocations |-> NoPlan]
    /\ blobCalls = [i \in Invocations |-> << >>]
    /\ trace = [i \in Invocations |-> << >>]
    /\ mints = [i \in Invocations |-> << >>]
    /\ forkRefs = (ForkDefaultBranch :> BaseCommit)
    /\ forkBlobs = {}
    /\ forkTrees = {[sha |-> BaseTree, base_tree |-> Undefined, tree |-> << >>]}
    /\ forkCommits = {[sha |-> BaseCommit, message |-> <<"initial">>,
                       tree |-> BaseTree, parents |-> << >>]}
    /\ pulls = << >>
    /\ mainRefs = (MainDefaultBranch :> MainCommit)
    /\ containerExists = FALSE
    /\ contactBlobs = {}

\* normalizeFilename is not applied on its own
NoFilename ==
    /\ original = << >>
    /\ normalized = << >>

\* normalizeMarkdownImagePaths is not applied on its own
NoMarkdown ==
    /\ markdown = << >>
    /\ assets = << >>
    /\ rewritten = << >>

\* generateFrontmatter is not applied on its own
NoFrontmatter ==
    /\ submitted = EmptySubmission
    /\ avatarName = Undefined
    /\ imageName = Undefined
    /\ frontmatter = << >>

\* no form is followed from the editor to the files array
NoForm ==
    /\ editor = [value |-> << >>, avatarImage |-> "", titleImage |-> ""]
    /\ payload = << >>
    /\ fileSet = << >>

\* the first lines of createCandidatePR are not applied on their own
NoPlanning ==
    /\ validated = EmptySubmission
    /\ planned = << >>

\* getCorsHeaders is not applied on its own
NoCors ==
    /\ configured = << >>
    /\ requestOrigin = << >>
    /\ corsOrigin = << >>

\* the tag manager when the page is loaded
NoTags ==
    /\ currentTags = << >>
    /\ tagEntry = << >>
    /\ formattedTags = << >>

Init ==
    /\ InitApp
    /\ NoFilename
    /\ NoMarkdown
    /\ NoFrontmatter
    /\ NoForm
    /\ NoPlanning
    /\ NoCors
    /\ NoTags


(***************************************************************************)
(* submitCandidate: responses                                              *)
(***************************************************************************)
Response204 == [NoResponse EXCEPT !.status = 204]

Response400(errors) ==
    [NoResponse EXCEPT !.status = 400, !.message = "Validation failed", !.errors = errors]

Response401 == [NoResponse EXCEPT !.status = 401, !.message = "Invalid security token"]

\* Mutant: the error response leaves the correlationId field out.
Response500WithoutCorrelationId ==
    [NoResponse EXCEPT !.status = 500,
       !.message = "An error occurred processing your submission. Please try again."]

\* the catch block
Response500 ==
    [NoResponse EXCEPT !.status = 500,
       !.message = "An error occurred processing your submission. Please try again.",
       !.correlationId = << >>]

Response200(id, url) ==
    [NoResponse EXCEPT !.status = 200, !.success = TRUE, !.correlationId = id,
       !.pullRequestUrl = url,
       !.message = "Candidate submission received! A pull request has been created for review."]

\* return { status, headers, jsonBody }
ReturnWith(i, r, h) ==
    /\ response' = [response EXCEPT ![i] = r]
    /\ headers' = [headers EXCEPT ![i] = h]
    /\ pc' = [pc EXCEPT ![i] = "returned"]

\* every return of submitCandidate carries corsHeaders
Return(i, r) == ReturnWith(i, r, getCorsHeaders(request[i]))

\* Mutant: the catch block reports the correlation id once one was minted.
CatchReportingCorrelationId(i) ==
    Return(i, [Response500 EXCEPT !.correlationId =
                  IF correlationId[i] = Undefined THEN << >> ELSE correlationId[i]])

\* Mutant: the catch block throws the error again; the invocation ends
\* without a response.
CatchRethrowing(i) ==
    /\ pc' = [pc EXCEPT ![i] = "returned"]
    /\ UNCHANGED <<response, headers>>

\* an error thrown inside the try block
Catch(i) == Return(i, Response500)

Goto(i, label) ==
    /\ pc' = [pc EXCEPT ![i] = label]
    /\ UNCHANGED <<response, headers>>

Log(i, events) == trace' = [trace EXCEPT ![i] = @ \o events]

Call(op, arg) == <<"call", op, arg>>
Ok(op, arg) == <<"ok", op, arg>>
Err(op, arg) == <<"err", op, arg>>

(***************************************************************************)
(* submitCandidate, up to the publication step                             *)
(***************************************************************************)
\* Mutant: the preflight answer carries no headers.
ReceiveAnsweringWithoutHeaders(i) ==
    /\ pc[i] = "idle"
    /\ \A j \in Invocations : j < i => pc[j] # "idle"
    /\ \E r \in Requests :
         /\ request' = [request EXCEPT ![i] = r]
         /\ IF r.method = "OPTIONS"
            THEN ReturnWith(i, Response204, NoHeaders)
            ELSE Goto(i, "request.json")
    /\ UNCHANGED <<env, pure, correlationId, prUrl, plan, blobCalls, trace, mints, fork, pulls, mainRefs, store>>

\* Entry, the preflight answer, and the await of request.json().
\* Invocations are numbered in the order they arrive.
Receive(i) ==
    /\ pc[i] = "idle"
    /\ \A j \in Invocations : j < i => pc[j] # "idle"
    /\ \E r \in Requests :
         /\ request' = [request EXCEPT ![i] = r]
         /\ IF r.method = "OPTIONS"
            THEN ReturnWith(i, Response204, getCorsHeaders(r))
            ELSE Goto(i, "request.json")
    /\ UNCHANGED <<env, pure, correlationId, prUrl, plan, blobCalls, trace, mints, fork, pulls, mainRefs, store>>

\* Mutant: a body that cannot be parsed is reported as a validation failure.
ValidateRejectingUnparseable(i) ==
    /\ pc[i] = "request.json"
    /\ LET errors == IF ~request[i].parseable THEN <<"Invalid JSON">>
                     ELSE validationErrors(request[i].submission)
       IN  IF Len(errors) > 0
           THEN Return(i, Response400(errors))
           ELSE Goto(i, "verifyTurnstile")
    /\ UNCHANGED <<env, pure, request, correlationId, prUrl, plan, blobCalls, trace, mints,
                   fork, pulls, mainRefs, store>>

\* The body is parsed and the required fields are checked.
Validate(i) ==
    /\ pc[i] = "request.json"
    /\ IF ~request[i].parseable
       THEN Catch(i)
       ELSE LET errors == validationErrors(request[i].submission)
            IN  IF Len(errors) > 0
                THEN Return(i, Response400(errors))
                ELSE Goto(i, "verifyTurnstile")
    /\ UNCHANGED <<env, pure, request, correlationId, prUrl, plan, blobCalls, trace, mints,
                   fork, pulls, mainRefs, store>>

\* Mutant: the result of verifyTurnstile is not tested.
VerifyTurnstileIgnoringResult(i) ==
    /\ pc[i] = "verifyTurnstile"
    /\ \/ /\ IS_LOCAL_DEV
          /\ Goto(i, "accepted")
          /\ UNCHANGED trace
       \/ /\ ~IS_LOCAL_DEV
          /\ \E result \in {"true", "false"} :
               Log(i, <<Call("siteverify", ""), Ok("siteverify", result)>>)
          /\ Goto(i, "accepted")
       \/ /\ ~IS_LOCAL_DEV
          /\ Log(i, <<Call("siteverify", ""), Err("siteverify", "")>>)
          /\ Catch(i)
    /\ UNCHANGED <<env, pure, request, correlationId, prUrl, plan, blobCalls, mints,
                   fork, pulls, mainRefs, store>>

\* Mutant: the oracle is asked in local mode too.
VerifyTurnstileWithoutBypass(i) ==
    /\ pc[i] = "verifyTurnstile"
    /\ \/ /\ Log(i, <<Call("siteverify", ""), Ok("siteverify", "true")>>)
          /\ Goto(i, "accepted")
       \/ /\ Log(i, <<Call("siteverify", ""), Ok("siteverify", "false")>>)
          /\ Return(i, Response401)
       \/ /\ Log(i, <<Call("siteverify", ""), Err("siteverify", "")>>)
          /\ Catch(i)
    /\ UNCHANGED <<env, pure, request, correlationId, prUrl, plan, blobCalls, mints,
                   fork, pulls, mainRefs, store>>

\* verifyTurnstile and the test of its result.
VerifyTurnstile(i) ==
    /\ pc[i] = "verifyTurnstile"
    /\ \/ /\ IS_LOCAL_DEV
          /\ Goto(i, "accepted")
          /\ UNCHANGED trace
       \/ /\ ~IS_LOCAL_DEV
          /\ Log(i, <<Call("siteverify", ""), Ok("siteverify", "true")>>)
          /\ Goto(i, "accepted")
       \/ /\ ~IS_LOCAL_DEV
          /\ Log(i, <<Call("siteverify", ""), Ok("siteverify", "false")>>)
          /\ Return(i, Response401)
       \/ /\ ~IS_LOCAL_DEV
          /\ Log(i, <<Call("siteverify", ""), Err("siteverify", "")>>)
          /\ Catch(i)
    /\ UNCHANGED <<env, pure, request, correlationId, prUrl, plan, blobCalls, mints,
                   fork, pulls, mainRefs, store>>

\* Mutant: the record is built from prUrl's initial value.
contactRecordOfInitialPrUrl(submission, id, url) ==
    [ correlationId |-> id, submittedAt |-> "now",
      contactEmail |-> submission.contactEmail, contactPhone |-> submission.contactPhone,
      contactNotes |-> submission.contactNotes, submitterName |-> submission.submitterName,
      submitterRelationship |-> submission.submitterRelationship,
      candidateName |-> submission.candidate, pullRequestUrl |-> << >> ]

\* ContactRecord, as submitCandidate builds it
contactRecordOf(submission, id, url) ==
    [ correlationId |-> id, submittedAt |-> "now",
      contactEmail |-> submission.contactEmail, contactPhone |-> submission.contactPhone,
      contactNotes |-> submission.contactNotes, submitterName |-> submission.submitterName,
      submitterRelationship |-> submission.submitterRelationship,
      candidateName |-> submission.candidate, pullRequestUrl |-> url ]

\* `${record.correlationId}.json`
blobNameOf(id) == id \o <<".json">>

\* Mutant: an identifier source that can repeat itself.
randomUUIDRepeating == UUIDs

minted == UNION {{mints[i][n] : n \in 1..Len(mints[i])} : i \in Invocations}

\* crypto.randomUUID: an identifier it has not returned before
randomUUID == UUIDs \ minted

\* Mutant: the contact record is stored when the submission is accepted and
\* stored again after the publication.
AcceptStoringFirst(i) ==
    /\ pc[i] = "accepted"
    /\ \E id \in randomUUID :
         /\ correlationId' = [correlationId EXCEPT ![i] = id]
         /\ mints' = [mints EXCEPT ![i] = Append(@, id)]
         /\ contactBlobs' = contactBlobs \cup
               {[name |-> blobNameOf(id),
                 content |-> contactRecordOf(request[i].submission, id, << >>)]}
    /\ IF IS_LOCAL_DEV /\ GITHUB_PRIVATE_KEY_SAFE = "null"
       THEN /\ prUrl' = [prUrl EXCEPT ![i] = MockPrUrl]
            /\ Goto(i, "createIfNotExists")
       ELSE /\ UNCHANGED prUrl
            /\ IF GITHUB_PRIVATE_KEY_SAFE = "null"
               THEN Catch(i)
               ELSE Goto(i, "auth")
    /\ UNCHANGED <<env, pure, request, plan, blobCalls, trace, fork, pulls, mainRefs, containerExists>>

\* Mutant: the skipped publication leaves prUrl at its initial value.
AcceptLeavingPrUrlEmpty(i) ==
    /\ pc[i] = "accepted"
    /\ \E id \in randomUUID :
         /\ correlationId' = [correlationId EXCEPT ![i] = id]
         /\ mints' = [mints EXCEPT ![i] = Append(@, id)]
    /\ IF IS_LOCAL_DEV /\ GITHUB_PRIVATE_KEY_SAFE = "null"
       THEN /\ UNCHANGED prUrl
            /\ Goto(i, "createIfNotExists")
       ELSE /\ UNCHANGED prUrl
            /\ IF GITHUB_PRIVATE_KEY_SAFE = "null"
               THEN Catch(i)
               ELSE Goto(i, "auth")
    /\ UNCHANGED <<env, pure, request, plan, blobCalls, trace, fork, pulls, mainRefs, store>>

\* Mutant: the publication is skipped whenever the key is missing.
AcceptSkippingWithoutKey(i) ==
    /\ pc[i] = "accepted"
    /\ \E id \in randomUUID :
         /\ correlationId' = [correlationId EXCEPT ![i] = id]
         /\ mints' = [mints EXCEPT ![i] = Append(@, id)]
    /\ IF GITHUB_PRIVATE_KEY_SAFE = "null"
       THEN /\ prUrl' = [prUrl EXCEPT ![i] = MockPrUrl]
            /\ Goto(i, "createIfNotExists")
       ELSE /\ UNCHANGED prUrl
            /\ Goto(i, "auth")
    /\ UNCHANGED <<env, pure, request, plan, blobCalls, trace, fork, pulls, mainRefs, store>>

\* const correlationId = randomUUID(), then the choice between skipping the
\* publication and getOctokit, whose first statement throws without a key.
Accept(i) ==
    /\ pc[i] = "accepted"
    /\ \E id \in randomUUID :
         /\ correlationId' = [correlationId EXCEPT ![i] = id]
         /\ mints' = [mints EXCEPT ![i] = Append(@, id)]
    /\ IF IS_LOCAL_DEV /\ GITHUB_PRIVATE_KEY_SAFE = "null"
       THEN /\ prUrl' = [prUrl EXCEPT ![i] = MockPrUrl]
            /\ Goto(i, "createIfNotExists")
       ELSE /\ UNCHANGED prUrl
            /\ IF GITHUB_PRIVATE_KEY_SAFE = "null"
               THEN Catch(i)
               ELSE Goto(i, "auth")
    /\ UNCHANGED <<env, pure, request, plan, blobCalls, trace, fork, pulls, mainRefs, store>>

\* createCandidatePR's derived names, computed before its first call
planOf(submission, id) ==
    LET slug == slugOf(submission.candidate)
    IN  [NoPlan EXCEPT !.slug = slug,
                       !.branchName = branchNameOf(slug, id),
                       !.candidatePath = candidatePathOf(yearOf(submission.electionDate), slug)]

\* getOctokit's token exchange, then createCandidatePR up to its first call.
GetOctokit(i) ==
    /\ pc[i] = "auth"
    /\ \/ /\ Log(i, <<Call("auth", ""), Ok("auth", "")>>)
          /\ plan' = [plan EXCEPT ![i] = planOf(request[i].submission, correlationId[i])]
          /\ Goto(i, "repos.get(fork)")
       \/ /\ Log(i, <<Call("auth", ""), Err("auth", "")>>)
          /\ UNCHANGED plan
          /\ Catch(i)
    /\ UNCHANGED <<env, pure, request, correlationId, prUrl, blobCalls, mints, fork, pulls, mainRefs, store>>


(***************************************************************************)
(* createCandidatePR                                                       *)
(***************************************************************************)
\* A call that fails: nothing changes at the collaborator, the error
\* propagates to submitCandidate's catch block.
Throws(i, op) ==
    /\ Log(i, <<Call(op, ""), Err(op, "")>>)
    /\ Catch(i)

Returns(i, op, next) ==
    /\ Log(i, <<Call(op, ""), Ok(op, "")>>)
    /\ Goto(i, next)

\* octokit.repos.get on the fork repository
ReposGetFork(i) ==
    /\ pc[i] = "repos.get(fork)"
    /\ \/ /\ Returns(i, "repos.get(fork)", "git.getRef")
          /\ plan' = [plan EXCEPT ![i].formRepoDefault = ForkDefaultBranch]
       \/ /\ Throws(i, "repos.get(fork)")
          /\ UNCHANGED plan
    /\ UNCHANGED <<env, pure, request, correlationId, prUrl, blobCalls, mints, fork, pulls, mainRefs, store>>

\* Mutant: a failed getRef is tried a second time.
GetRefRetrying(i) ==
    /\ pc[i] = "git.getRef"
    /\ \/ /\ plan[i].formRepoDefault \in DOMAIN forkRefs
          /\ Returns(i, "git.getRef", "repos.get(main)")
          /\ plan' = [plan EXCEPT ![i].refSha = forkRefs[plan[i].formRepoDefault]]
       \/ /\ \E n \in 1..Len(trace[i]) : trace[i][n] = Call("git.getRef", "")
          /\ Throws(i, "git.getRef")
          /\ UNCHANGED plan
       \/ /\ \A n \in 1..Len(trace[i]) : trace[i][n] # Call("git.getRef", "")
          /\ Log(i, <<Call("git.getRef", ""), Err("git.getRef", "")>>)
          /\ Goto(i, "git.getRef")
          /\ UNCHANGED plan
    /\ UNCHANGED <<env, pure, request, correlationId, prUrl, blobCalls, mints, fork, pulls, mainRefs, store>>

\* octokit.git.getRef of heads/{formRepo.default_branch}
GetRef(i) ==
    /\ pc[i] = "git.getRef"
    /\ \/ /\ plan[i].formRepoDefault \in DOMAIN forkRefs
          /\ Returns(i, "git.getRef", "repos.get(main)")
          /\ plan' = [plan EXCEPT ![i].refSha = forkRefs[plan[i].formRepoDefault]]
       \/ /\ Throws(i, "git.getRef")
          /\ UNCHANGED plan
    /\ UNCHANGED <<env, pure, request, correlationId, prUrl, blobCalls, mints, fork, pulls, mainRefs, store>>

\* octokit.repos.get on the main repository
ReposGetMain(i) ==
    /\ pc[i] = "repos.get(main)"
    /\ \/ /\ Returns(i, "repos.get(main)", "git.createRef")
          /\ plan' = [plan EXCEPT ![i].mainRepoDefault = MainDefaultBranch]
       \/ /\ Throws(i, "repos.get(main)")
          /\ UNCHANGED plan
    /\ UNCHANGED <<env, pure, request, correlationId, prUrl, blobCalls, mints, fork, pulls, mainRefs, store>>

avatarFilenameOf(slug) ==
    normalizeFilename(slug \o <<"-","a","v","a","t","a","r",".","j","p","g">>)

imageFilenameOf(slug) ==
    normalizeFilename(slug \o <<"-","t","i","t","l","e",".","j","p","g">>)

FileEntry(candidatePath, filename, encoding, content) ==
    [path |-> candidatePath \o <<"/">> \o filename, encoding |-> encoding, content |-> content]

\* Mutant: every inline image is kept as base64, SVG or not.
inlineImageFileAlwaysBinary(candidatePath, img, k) ==
    FileEntry(candidatePath, normalizeFilename(originalFilenameOf(img.path)), "base64",
              <<"additionalImages", DigitChar[k]>>)

\* the body of submission.additionalImages.forEach, for the k-th image
inlineImageFile(candidatePath, img, k) ==
    LET normalizedFilename == normalizeFilename(originalFilenameOf(img.path))
    IN  IF isSVG(normalizedFilename)
        THEN FileEntry(candidatePath, normalizedFilename, "none",
                       <<"utf-8 text of additionalImages", DigitChar[k]>>)
        ELSE FileEntry(candidatePath, normalizedFilename, "base64",
                       <<"additionalImages", DigitChar[k]>>)

\* Map.prototype.set on a map kept as its entries <<key, value>> in insertion order
MapSet(map, key, value) ==
    IF \E n \in 1..Len(map) : map[n][1] = key
    THEN [n \in 1..Len(map) |-> IF map[n][1] = key THEN <<key, value>> ELSE map[n]]
    ELSE Append(map, <<key, value>>)

\* imageMap after additionalImages.forEach
RECURSIVE imageMapOf(_)
imageMapOf(images) ==
    IF images = << >> THEN << >>
    ELSE LET img == images[Len(images)]
             originalFilename == originalFilenameOf(img.path)
             normalizedFilename == normalizeFilename(originalFilename)
         IN  MapSet(MapSet(imageMapOf(SubSeq(images, 1, Len(images) - 1)),
                           originalFilename, normalizedFilename),
                    img.path, normalizedFilename)

AssetsPrefix == <<".","/",".",".","/",".",".","/","a","s","s","e","t","s","/",
                  "i","m","a","g","e","s","/">>
ImagesPrefix == <<"i","m","a","g","e","s","/">>

\* Mutant: the pattern is not anchored at the opening parenthesis, so that
\* any target ending in originalPath matches.
replacePatternUnanchored(tokens, prefix, originalPath, normalizedPath) ==
    [k \in 1..Len(tokens) |->
       IF tokens[k].kind = "image" /\ endsWith(tokens[k].target, prefix \o originalPath)
       THEN [tokens[k] EXCEPT !.target = normalizedPath]
       ELSE tokens[k]]

\* updated.replace(pattern, `![$1](${normalizedPath})`) for the pattern that
\* matches ![alt](prefix + originalPath)
replacePattern(tokens, prefix, originalPath, normalizedPath) ==
    [k \in 1..Len(tokens) |->
       IF tokens[k].kind = "image" /\ tokens[k].target = prefix \o originalPath
       THEN [tokens[k] EXCEPT !.target = normalizedPath]
       ELSE tokens[k]]

\* the three patterns of one imageMap entry, one after the other
replaceEntry(tokens, entry) ==
    replacePattern(
        replacePattern(
            replacePattern(tokens, << >>, entry[1], entry[2]),
            AssetsPrefix, entry[1], entry[2]),
        ImagesPrefix, entry[1], entry[2])

RECURSIVE normalizeMarkdownImagePaths(_, _)
normalizeMarkdownImagePaths(content, imageMap) ==
    IF imageMap = << >> THEN content
    ELSE normalizeMarkdownImagePaths(replaceEntry(content, Head(imageMap)), Tail(imageMap))

\* about.replace(/"/g, '\\"')
escapeQuotes(s) ==
    Concat([k \in 1..Len(s) |-> IF s[k] = "\"" THEN <<"\\", "\"">> ELSE <<s[k]>>])

\* `${x || ""}` for a filename that may be undefined
orEmpty(x) == IF x = Undefined THEN << >> ELSE x

\* Mutant: a line is left out when its value is empty, and the website line
\* is written whether or not there is a website.
generateFrontmatterOmittingEmpty(submission, avatarFilename, imageFilename) ==
    << <<"title", submission.title>>,
       <<"meta_title", submission.candidate, " for ", submission.title>>,
       <<"description", submission.candidate, " for ", submission.title>>,
       <<"candidate", submission.candidate>>,
       <<"party", submission.party>>,
       <<"election_date", submission.electionDate \o <<"T12:00:00Z">>>> >>
    \o (IF imageFilename # Undefined THEN << <<"image", imageFilename>> >> ELSE << >>)
    \o << <<"categories", submission.categories>>,
          <<"tags", submission.tags>>,
          <<"draft", "false">> >>
    \o (IF avatarFilename # Undefined THEN << <<"avatar", avatarFilename>> >> ELSE << >>)
    \o << <<"about", escapeQuotes(submission.about)>>,
          <<"website", submission.website>>,
          <<"content", submission.content>> >>

\* Mutant: the front matter names the submitter.
generateFrontmatterNamingSubmitter(submission, avatarFilename, imageFilename) ==
    << <<"title", submission.title>>,
       <<"meta_title", submission.candidate, " for ", submission.title>>,
       <<"description", submission.candidate, " for ", submission.title>>,
       <<"candidate", submission.candidate>>,
       <<"party", submission.party>>,
       <<"election_date", submission.electionDate \o <<"T12:00:00Z">>>>,
       <<"image", orEmpty(imageFilename)>>,
       <<"categories", submission.categories>>,
       <<"tags", submission.tags>>,
       <<"draft", "false">>,
       <<"avatar", orEmpty(avatarFilename)>>,
       <<"about", escapeQuotes(submission.about)>>,
       <<"submitted_by", submission.submitterName>> >>
    \o (IF submission.website # "" THEN << <<"website", submission.website>> >> ELSE << >>)
    \o << <<"content", submission.content>> >>

\* generateFrontmatter: the lines of the template, then the body
generateFrontmatter(submission, avatarFilename, imageFilename) ==
    << <<"title", submission.title>>,
       <<"meta_title", submission.candidate, " for ", submission.title>>,
       <<"description", submission.candidate, " for ", submission.title>>,
       <<"candidate", submission.candidate>>,
       <<"party", submission.party>>,
       <<"election_date", submission.electionDate \o <<"T12:00:00Z">>>>,
       <<"image", orEmpty(imageFilename)>>,
       <<"categories", submission.categories>>,
       <<"tags", submission.tags>>,
       <<"draft", "false">>,
       <<"avatar", orEmpty(avatarFilename)>>,
       <<"about", escapeQuotes(submission.about)>> >>
    \o (IF submission.website # "" THEN << <<"website", submission.website>> >> ELSE << >>)
    \o << <<"content", submission.content>> >>

\* the files array: avatar, title image, inline images, index.md
filesOf(submission, slug, candidatePath) ==
    (IF submission.avatarImage # ""
     THEN <<FileEntry(candidatePath, avatarFilenameOf(slug), "base64", <<"avatarImage">>)>>
     ELSE << >>)
    \o (IF submission.titleImage # ""
        THEN <<FileEntry(candidatePath, imageFilenameOf(slug), "base64", <<"titleImage">>)>>
        ELSE << >>)
    \o [k \in 1..Len(submission.additionalImages) |->
          inlineImageFile(candidatePath, submission.additionalImages[k], k)]
    \o <<FileEntry(candidatePath, <<"i","n","d","e","x",".","m","d">>, "none",
                   <<"index.md",
                     generateFrontmatter(
                        [submission EXCEPT !.content =
                            normalizeMarkdownImagePaths(
                                submission.content, imageMapOf(submission.additionalImages))],
                        IF submission.avatarImage # "" THEN avatarFilenameOf(slug) ELSE Undefined,
                        IF submission.titleImage # "" THEN imageFilenameOf(slug) ELSE Undefined)>>)>>

\* Mutant: when the branch name is taken, a second name is tried.
CreateRefFallingBack(i) ==
    /\ pc[i] = "git.createRef"
    /\ \/ /\ Returns(i, "git.createRef", "git.getTree")
          /\ LET branchName == IF plan[i].branchName \in DOMAIN forkRefs
                               THEN plan[i].branchName \o <<"-", "2">>
                               ELSE plan[i].branchName
             IN  /\ forkRefs' = (branchName :> plan[i].refSha) @@ forkRefs
                 /\ plan' = [plan EXCEPT
                        ![i].branchName = branchName,
                        ![i].files = filesOf(request[i].submission, plan[i].slug,
                                             plan[i].candidatePath),
                        ![i].avatarFilename =
                            IF request[i].submission.avatarImage # ""
                            THEN avatarFilenameOf(plan[i].slug) ELSE Undefined,
                        ![i].imageFilename =
                            IF request[i].submission.titleImage # ""
                            THEN imageFilenameOf(plan[i].slug) ELSE Undefined]
       \/ /\ Throws(i, "git.createRef")
          /\ UNCHANGED <<plan, forkRefs>>
    /\ UNCHANGED <<env, pure, request, correlationId, prUrl, blobCalls, mints,
                   forkBlobs, forkTrees, forkCommits, pulls, mainRefs, store>>

\* Mutant: the branch is created in the main repository.
CreateRefInMain(i) ==
    /\ pc[i] = "git.createRef"
    /\ \/ /\ plan[i].branchName \notin DOMAIN mainRefs
          /\ Returns(i, "git.createRef", "git.getTree")
          /\ mainRefs' = (plan[i].branchName :> plan[i].refSha) @@ mainRefs
          /\ plan' = [plan EXCEPT
                        ![i].files = filesOf(request[i].submission, plan[i].slug,
                                             plan[i].candidatePath),
                        ![i].avatarFilename =
                            IF request[i].submission.avatarImage # ""
                            THEN avatarFilenameOf(plan[i].slug) ELSE Undefined,
                        ![i].imageFilename =
                            IF request[i].submission.titleImage # ""
                            THEN imageFilenameOf(plan[i].slug) ELSE Undefined]
       \/ /\ Throws(i, "git.createRef")
          /\ UNCHANGED <<plan, mainRefs>>
    /\ UNCHANGED <<env, pure, request, correlationId, prUrl, blobCalls, mints,
                   fork, pulls, store>>

\* octokit.git.createRef of refs/heads/{branchName} at ref.object.sha, then
\* the files array is built.
CreateRef(i) ==
    /\ pc[i] = "git.createRef"
    /\ \/ /\ Throws(i, "git.createRef")
          /\ UNCHANGED <<plan, forkRefs>>
       \/ /\ plan[i].branchName \notin DOMAIN forkRefs
          /\ Returns(i, "git.createRef", "git.getTree")
          /\ forkRefs' = (plan[i].branchName :> plan[i].refSha) @@ forkRefs
          /\ plan' = [plan EXCEPT
                        ![i].files = filesOf(request[i].submission, plan[i].slug,
                                             plan[i].candidatePath),
                        ![i].avatarFilename =
                            IF request[i].submission.avatarImage # ""
                            THEN avatarFilenameOf(plan[i].slug) ELSE Undefined,
                        ![i].imageFilename =
                            IF request[i].submission.titleImage # ""
                            THEN imageFilenameOf(plan[i].slug) ELSE Undefined]
    /\ UNCHANGED <<env, pure, request, correlationId, prUrl, blobCalls, mints,
                   forkBlobs, forkTrees, forkCommits, pulls, mainRefs, store>>

commitOf(sha) == CHOOSE c \in forkCommits : c.sha = sha

\* the promise files.map returns for one file
promiseOf(file) ==
    IF file.encoding = "base64"
    THEN [state |-> "pending", sha |-> Undefined]
    ELSE [state |-> "fulfilled", sha |-> Undefined]

createBlobCalls(files) ==
    SelectSeq([k \in 1..Len(files) |->
                 IF files[k].encoding = "base64"
                 THEN Call("git.createBlob", DigitChar[k]) ELSE << >>],
              LAMBDA e : e # << >>)

\* Mutant: the promises of files.map are not awaited.
GetTreeNotAwaitingBlobs(i) ==
    /\ pc[i] = "git.getTree"
    /\ \/ /\ \E c \in forkCommits : c.sha = plan[i].refSha
          /\ plan' = [plan EXCEPT ![i].baseTree = commitOf(plan[i].refSha).tree]
          /\ blobCalls' = [blobCalls EXCEPT
                             ![i] = [k \in 1..Len(plan[i].files) |-> promiseOf(plan[i].files[k])]]
          /\ Log(i, <<Call("git.getTree", ""), Ok("git.getTree", "")>>
                      \o createBlobCalls(plan[i].files))
          /\ Goto(i, "git.createTree")
       \/ /\ Throws(i, "git.getTree")
          /\ UNCHANGED <<plan, blobCalls>>
    /\ UNCHANGED <<env, pure, request, correlationId, prUrl, mints, fork, pulls, mainRefs, store>>

\* octokit.git.getTree at ref.object.sha, then files.map issues one
\* createBlob call per binary file and Promise.all awaits them.
GetTree(i) ==
    /\ pc[i] = "git.getTree"
    /\ \/ /\ \E c \in forkCommits : c.sha = plan[i].refSha
          /\ plan' = [plan EXCEPT ![i].baseTree = commitOf(plan[i].refSha).tree]
          /\ blobCalls' = [blobCalls EXCEPT
                             ![i] = [k \in 1..Len(plan[i].files) |-> promiseOf(plan[i].files[k])]]
          /\ Log(i, <<Call("git.getTree", ""), Ok("git.getTree", "")>>
                      \o createBlobCalls(plan[i].files))
          /\ IF \E k \in 1..Len(plan[i].files) : plan[i].files[k].encoding = "base64"
             THEN Goto(i, "Promise.all")
             ELSE Goto(i, "git.createTree")
       \/ /\ Throws(i, "git.getTree")
          /\ UNCHANGED <<plan, blobCalls>>
    /\ UNCHANGED <<env, pure, request, correlationId, prUrl, mints, fork, pulls, mainRefs, store>>

blobShaOf(i, k) == <<"blob", DigitChar[i], DigitChar[k]>>

\* One createBlob call returns.  Promise.all resolves when the last one is
\* fulfilled and rejects at the first one that fails; the calls still in
\* flight then end on their own.
CreateBlobReturns(i, k) ==
    /\ k \in DOMAIN blobCalls[i]
    /\ blobCalls[i][k].state = "pending"
    /\ \/ /\ blobCalls' = [blobCalls EXCEPT
                             ![i][k] = [state |-> "fulfilled", sha |-> blobShaOf(i, k)]]
          /\ forkBlobs' = forkBlobs \cup {blobShaOf(i, k)}
          /\ Log(i, <<Ok("git.createBlob", DigitChar[k])>>)
          /\ IF /\ pc[i] = "Promise.all"
                /\ \A j \in DOMAIN blobCalls[i] \ {k} : blobCalls[i][j].state = "fulfilled"
             THEN Goto(i, "git.createTree")
             ELSE UNCHANGED <<pc, response, headers>>
       \/ /\ blobCalls' = [blobCalls EXCEPT ![i][k].state = "rejected"]
          /\ UNCHANGED forkBlobs
          /\ Log(i, <<Err("git.createBlob", DigitChar[k])>>)
          /\ IF pc[i] = "Promise.all"
             THEN Catch(i)
             ELSE UNCHANGED <<pc, response, headers>>
    /\ UNCHANGED <<env, pure, request, correlationId, prUrl, plan, mints,
                   forkRefs, forkTrees, forkCommits, pulls, mainRefs, store>>

\* Mutant: the results are paired with the files in the opposite order.
treeItemsOfReversed(files, promises) ==
    [k \in 1..Len(files) |->
       IF files[k].encoding = "base64"
       THEN [path |-> files[k].path, sha |-> promises[Len(files) + 1 - k].sha,
             content |-> Undefined]
       ELSE [path |-> files[k].path, sha |-> Undefined, content |-> files[k].content]]

\* the treeItems array
treeItemsOf(files, promises) ==
    [k \in 1..Len(files) |->
       IF files[k].encoding = "base64"
       THEN [path |-> files[k].path, sha |-> promises[k].sha, content |-> Undefined]
       ELSE [path |-> files[k].path, sha |-> Undefined, content |-> files[k].content]]

treeShaOf(i) == <<"tree", DigitChar[i]>>
commitShaOf(i) == <<"commit", DigitChar[i]>>

\* octokit.git.createTree over baseTree.sha
CreateTree(i) ==
    /\ pc[i] = "git.createTree"
    /\ \/ /\ Returns(i, "git.createTree", "git.createCommit")
          /\ forkTrees' = forkTrees \cup
                {[sha |-> treeShaOf(i), base_tree |-> plan[i].baseTree,
                  tree |-> treeItemsOf(plan[i].files, blobCalls[i])]}
          /\ plan' = [plan EXCEPT ![i].newTree = treeShaOf(i)]
       \/ /\ Throws(i, "git.createTree")
          /\ UNCHANGED <<plan, forkTrees>>
    /\ UNCHANGED <<env, pure, request, correlationId, prUrl, blobCalls, mints,
                   forkRefs, forkBlobs, forkCommits, pulls, mainRefs, store>>

\* `Add Candidate ${submission.candidate}`
commitMessageOf(submission) == <<"Add Candidate ">> \o submission.candidate

\* Mutant: a failed createCommit deletes the branch before the error propagates.
CreateCommitRollingBack(i) ==
    /\ pc[i] = "git.createCommit"
    /\ \/ /\ Returns(i, "git.createCommit", "git.updateRef")
          /\ forkCommits' = forkCommits \cup
                {[sha |-> commitShaOf(i), message |-> commitMessageOf(request[i].submission),
                  tree |-> plan[i].newTree, parents |-> <<plan[i].refSha>>]}
          /\ plan' = [plan EXCEPT ![i].commit = commitShaOf(i)]
          /\ UNCHANGED forkRefs
       \/ /\ Throws(i, "git.createCommit")
          /\ forkRefs' = [r \in DOMAIN forkRefs \ {plan[i].branchName} |-> forkRefs[r]]
          /\ UNCHANGED <<plan, forkCommits>>
    /\ UNCHANGED <<env, pure, request, correlationId, prUrl, blobCalls, mints,
                   forkBlobs, forkTrees, pulls, mainRefs, store>>

\* Mutant: the commit is made onto whatever the fork's default branch points
\* at when createCommit is called.
CreateCommitOntoDefaultHead(i) ==
    /\ pc[i] = "git.createCommit"
    /\ \/ /\ Returns(i, "git.createCommit", "git.updateRef")
          /\ forkCommits' = forkCommits \cup
                {[sha |-> commitShaOf(i), message |-> commitMessageOf(request[i].submission),
                  tree |-> plan[i].newTree, parents |-> <<forkRefs[ForkDefaultBranch]>>]}
          /\ plan' = [plan EXCEPT ![i].commit = commitShaOf(i)]
       \/ /\ Throws(i, "git.createCommit")
          /\ UNCHANGED <<plan, forkCommits>>
    /\ UNCHANGED <<env, pure, request, correlationId, prUrl, blobCalls, mints,
                   forkRefs, forkBlobs, forkTrees, pulls, mainRefs, store>>

\* octokit.git.createCommit with parents [ref.object.sha]
CreateCommit(i) ==
    /\ pc[i] = "git.createCommit"
    /\ \/ /\ Returns(i, "git.createCommit", "git.updateRef")
          /\ forkCommits' = forkCommits \cup
                {[sha |-> commitShaOf(i), message |-> commitMessageOf(request[i].submission),
                  tree |-> plan[i].newTree, parents |-> <<plan[i].refSha>>]}
          /\ plan' = [plan EXCEPT ![i].commit = commitShaOf(i)]
       \/ /\ Throws(i, "git.createCommit")
          /\ UNCHANGED <<plan, forkCommits>>
    /\ UNCHANGED <<env, pure, request, correlationId, prUrl, blobCalls, mints,
                   forkRefs, forkBlobs, forkTrees, pulls, mainRefs, store>>

RECURSIVE ancestorsOf(_)
ancestorsOf(sha) ==
    {sha} \cup UNION {ancestorsOf(commitOf(sha).parents[n]) :
                        n \in 1..Len(commitOf(sha).parents)}

\* Mutant: the ref that is moved is the first form branch found in the fork.
UpdateRefOfAnyFormBranch(i) ==
    /\ pc[i] = "git.updateRef"
    /\ \/ /\ plan[i].branchName \in DOMAIN forkRefs
          /\ LET branchName == CHOOSE r \in DOMAIN forkRefs : r # ForkDefaultBranch
             IN  /\ forkRefs[branchName] \in ancestorsOf(plan[i].commit)
                 /\ forkRefs' = [forkRefs EXCEPT ![branchName] = plan[i].commit]
          /\ Returns(i, "git.updateRef", "pulls.create")
       \/ /\ Throws(i, "git.updateRef")
          /\ UNCHANGED forkRefs
    /\ UNCHANGED <<env, pure, request, correlationId, prUrl, plan, blobCalls, mints,
                   forkBlobs, forkTrees, forkCommits, pulls, mainRefs, store>>

\* octokit.git.updateRef of heads/{branchName}, not forced: the hosting API
\* moves the ref only forward.
UpdateRef(i) ==
    /\ pc[i] = "git.updateRef"
    /\ \/ /\ plan[i].branchName \in DOMAIN forkRefs
          /\ forkRefs[plan[i].branchName] \in ancestorsOf(plan[i].commit)
          /\ Returns(i, "git.updateRef", "pulls.create")
          /\ forkRefs' = [forkRefs EXCEPT ![plan[i].branchName] = plan[i].commit]
       \/ /\ Throws(i, "git.updateRef")
          /\ UNCHANGED forkRefs
    /\ UNCHANGED <<env, pure, request, correlationId, prUrl, plan, blobCalls, mints,
                   forkBlobs, forkTrees, forkCommits, pulls, mainRefs, store>>

\* Mutant: the pull request is opened onto the fork's default branch name.
pullOfOntoForkDefault(submission, id, branchName, base, number) ==
    [ number |-> DigitChar[number],
      title |-> <<"Add Candidate ">> \o submission.candidate,
      body |-> [candidate |-> submission.candidate, position |-> submission.title,
                party |-> submission.party, correlationId |-> id],
      head |-> branchName, head_repo |-> "fork", base |-> ForkDefaultBranch,
      html_url |-> <<"https://github.com/pull/", DigitChar[number]>> ]

\* the pull request of octokit.pulls.create, numbered by the main repository
pullOf(submission, id, branchName, base, number) ==
    [ number |-> DigitChar[number],
      title |-> <<"Add Candidate ">> \o submission.candidate,
      body |-> [candidate |-> submission.candidate, position |-> submission.title,
                party |-> submission.party, correlationId |-> id],
      head |-> branchName, head_repo |-> "fork", base |-> base,
      html_url |-> <<"https://github.com/pull/", DigitChar[number]>> ]

\* Mutant: a statement after octokit.pulls.create throws although the pull
\* request was opened.
PullsCreateThrowingAfterOpen(i) ==
    /\ pc[i] = "pulls.create"
    /\ \/ /\ plan[i].branchName \in DOMAIN forkRefs
          /\ \A n \in 1..Len(pulls) :
               ~(pulls[n].head = plan[i].branchName /\ pulls[n].base = plan[i].mainRepoDefault)
          /\ LET pr == pullOf(request[i].submission, correlationId[i], plan[i].branchName,
                              plan[i].mainRepoDefault, Len(pulls) + 1)
             IN  /\ pulls' = Append(pulls, pr)
                 /\ prUrl' = [prUrl EXCEPT ![i] = pr.html_url]
          /\ \/ Returns(i, "pulls.create", "createIfNotExists")
             \/ Throws(i, "pulls.create")
       \/ /\ Throws(i, "pulls.create")
          /\ UNCHANGED <<pulls, prUrl>>
    /\ UNCHANGED <<env, pure, request, correlationId, plan, blobCalls, mints, fork, mainRefs,
                   store>>

\* octokit.pulls.create on the main repository; createCandidatePR returns
\* pr.html_url and submitCandidate goes on to storeContactInfo.
PullsCreate(i) ==
    /\ pc[i] = "pulls.create"
    /\ \/ /\ plan[i].branchName \in DOMAIN forkRefs
          /\ \A n \in 1..Len(pulls) :
               ~(pulls[n].head = plan[i].branchName /\ pulls[n].base = plan[i].mainRepoDefault)
          /\ LET pr == pullOf(request[i].submission, correlationId[i], plan[i].branchName,
                              plan[i].mainRepoDefault, Len(pulls) + 1)
             IN  /\ pulls' = Append(pulls, pr)
                 /\ prUrl' = [prUrl EXCEPT ![i] = pr.html_url]
          /\ Returns(i, "pulls.create", "createIfNotExists")
       \/ /\ Throws(i, "pulls.create")
          /\ UNCHANGED <<pulls, prUrl>>
    /\ UNCHANGED <<env, pure, request, correlationId, plan, blobCalls, mints, fork, mainRefs,
                   store>>

(***************************************************************************)
(* storeContactInfo and the 200 response                                   *)
(***************************************************************************)
\* Mutant: a failure of createIfNotExists is swallowed and the upload follows.
CreateIfNotExistsIgnoringFailure(i) ==
    /\ pc[i] = "createIfNotExists"
    /\ \/ /\ Returns(i, "createIfNotExists", "upload")
          /\ containerExists' = TRUE
       \/ /\ Log(i, <<Call("createIfNotExists", ""), Err("createIfNotExists", "")>>)
          /\ Goto(i, "upload")
          /\ UNCHANGED containerExists
    /\ UNCHANGED <<env, pure, request, correlationId, prUrl, plan, blobCalls, mints,
                   fork, pulls, mainRefs, contactBlobs>>

\* containerClient.createIfNotExists
CreateIfNotExists(i) ==
    /\ pc[i] = "createIfNotExists"
    /\ \/ /\ Returns(i, "createIfNotExists", "upload")
          /\ containerExists' = TRUE
       \/ /\ Throws(i, "createIfNotExists")
          /\ UNCHANGED containerExists
    /\ UNCHANGED <<env, pure, request, correlationId, prUrl, plan, blobCalls, mints,
                   fork, pulls, mainRefs, contactBlobs>>

\* blobClient.upload, which overwrites, then the 200 response
Upload(i) ==
    /\ pc[i] = "upload"
    /\ \/ /\ containerExists
          /\ Log(i, <<Call("upload", ""), Ok("upload", "")>>)
          /\ contactBlobs' =
                {b \in contactBlobs : b.name # blobNameOf(correlationId[i])}
                \cup {[name |-> blobNameOf(correlationId[i]),
                       content |-> contactRecordOf(request[i].submission, correlationId[i],
                                                   prUrl[i])]}
          /\ Return(i, Response200(correlationId[i], prUrl[i]))
       \/ /\ Throws(i, "upload")
          /\ UNCHANGED contactBlobs
    /\ UNCHANGED <<env, pure, request, correlationId, prUrl, plan, blobCalls, mints,
                   fork, pulls, mainRefs, containerExists>>

(***************************************************************************)
(* Specification                                                           *)
(***************************************************************************)
Next ==
    \E i \in Invocations :
        \/ Receive(i)
        \/ Validate(i)
        \/ VerifyTurnstile(i)
        \/ Accept(i)
        \/ GetOctokit(i)
        \/ ReposGetFork(i)
        \/ GetRef(i)
        \/ ReposGetMain(i)
        \/ CreateRef(i)
        \/ GetTree(i)
        \/ \E k \in 1..Len(blobCalls[i]) : CreateBlobReturns(i, k)
        \/ CreateTree(i)
        \/ CreateCommit(i)
        \/ UpdateRef(i)
        \/ PullsCreate(i)
        \/ CreateIfNotExists(i)
        \/ Upload(i)

Spec == Init /\ [][Next]_vars

(***************************************************************************)
(* The handler while somebody else pushes to the fork's default branch.    *)
(***************************************************************************)
MaxPushes == 1

pushed == {c \in forkCommits : c.message = <<"push">>}

\* A commit is pushed onto the fork's default branch by another party while
\* an invocation that has read the branch's head is under way.
ForkAdvances ==
    /\ Cardinality(pushed) < MaxPushes
    /\ \E i \in Invocations : plan[i].refSha # Undefined /\ pc[i] # "returned"
    /\ LET sha == <<"commit", "push", DigitChar[Cardinality(pushed) + 1]>>
       IN  /\ forkCommits' = forkCommits \cup
                  {[sha |-> sha, message |-> <<"push">>, tree |-> BaseTree,
                    parents |-> <<forkRefs[ForkDefaultBranch]>>]}
           /\ forkRefs' = [forkRefs EXCEPT ![ForkDefaultBranch] = sha]
    /\ UNCHANGED <<env, pure, handler, trace, mints, forkBlobs, forkTrees, pulls, mainRefs, store>>

\* One invocation is followed; the other one receives no request.
InitForkAdvances ==
    /\ IS_LOCAL_DEV \in BOOLEAN
    /\ GITHUB_PRIVATE_KEY_SAFE \in {"null", "pem"}
    /\ pc = [i \in Invocations |-> IF i = 1 THEN "idle" ELSE "returned"]
    /\ request = [i \in Invocations |-> NoRequest]
    /\ response = [i \in Invocations |-> NoResponse]
    /\ headers = [i \in Invocations |-> NoHeaders]
    /\ correlationId = [i \in Invocations |-> Undefined]
    /\ prUrl = [i \in Invocations |-> << >>]
    /\ plan = [i \in Invocations |-> NoPlan]
    /\ blobCalls = [i \in Invocations |-> << >>]
    /\ trace = [i \in Invocations |-> << >>]
    /\ mints = [i \in Invocations |-> << >>]
    /\ forkRefs = (ForkDefaultBranch :> BaseCommit)
    /\ forkBlobs = {}
    /\ forkTrees = {[sha |-> BaseTree, base_tree |-> Undefined, tree |-> << >>]}
    /\ forkCommits = {[sha |-> BaseCommit, message |-> <<"initial">>,
                       tree |-> BaseTree, parents |-> << >>]}
    /\ pulls = << >>
    /\ mainRefs = (MainDefaultBranch :> MainCommit)
    /\ containerExists = FALSE
    /\ contactBlobs = {}
    /\ NoFilename
    /\ NoMarkdown
    /\ NoFrontmatter
    /\ NoForm
    /\ NoPlanning
    /\ NoCors
    /\ NoTags

NextForkAdvances == Next \/ ForkAdvances

SpecForkAdvances == InitForkAdvances /\ [][NextForkAdvances]_vars

(***************************************************************************)
(* The handler when every awaited call settles: whatever an invocation     *)
(* awaits (the body, the oracle, the hosting API, the object store)        *)
(* eventually fulfils or rejects, and the runtime then resumes the         *)
(* invocation.  Nothing obliges a request to arrive.  One invocation is    *)
(* followed: each of its calls may fulfil or reject whatever another       *)
(* invocation does.                                                        *)
(***************************************************************************)
Proceed(i) ==
    \/ Validate(i)
    \/ VerifyTurnstile(i)
    \/ Accept(i)
    \/ GetOctokit(i)
    \/ ReposGetFork(i)
    \/ GetRef(i)
    \/ ReposGetMain(i)
    \/ CreateRef(i)
    \/ GetTree(i)
    \/ \E k \in 1..Len(blobCalls[i]) : CreateBlobReturns(i, k)
    \/ CreateTree(i)
    \/ CreateCommit(i)
    \/ UpdateRef(i)
    \/ PullsCreate(i)
    \/ CreateIfNotExists(i)
    \/ Upload(i)

SpecSettling ==
    InitForkAdvances /\ [][Next]_vars /\ \A i \in Invocations : WF_vars(Proceed(i))

(***************************************************************************)
(* normalizeFilename on its own: applied to every file name of up to       *)
(* MaxFilenameLen characters, then to its own result.                      *)
(***************************************************************************)
MaxFilenameLen == 4

FilenameChars == {"a", "B", "1", ".", "-", "!"}

Filenames == UNION {[1..n -> FilenameChars] : n \in 0..MaxFilenameLen}

InitNormalizeFilename ==
    /\ InitApp
    /\ original \in Filenames
    /\ normalized = << >>
    /\ NoMarkdown
    /\ NoFrontmatter
    /\ NoForm
    /\ NoPlanning
    /\ NoCors
    /\ NoTags

ApplyNormalizeFilename ==
    /\ Len(normalized) < 2
    /\ normalized' = Append(normalized,
                            normalizeFilename(IF normalized = << >>
                                              THEN original
                                              ELSE normalized[Len(normalized)]))
    /\ UNCHANGED <<env, handler, trace, mints, fork, pulls, mainRefs, store, original, bodies,
                   frontmatters, forms, plans, cors, tagManager>>

NextNormalizeFilename == ApplyNormalizeFilename

SpecNormalizeFilename == InitNormalizeFilename /\ [][NextNormalizeFilename]_vars


(***************************************************************************)
(* normalizeMarkdownImagePaths on its own: applied to every body of up to  *)
(* MaxTokens tokens and to the imageMap of up to MaxImages inline images.  *)
(***************************************************************************)
MaxTokens == 2

MaxImages == 2

\* img.path of the inline images: the file names are "!.p", ".p" and "A.p"
ImagePaths == { ImagesPrefix \o <<"!", ".", "p">>, <<".", "p">>, <<"A", ".", "p">> }

ImageSets ==
    UNION {[1..n -> [path : ImagePaths, content : {"base64"}]] : n \in 0..MaxImages}

\* the targets written in the body: a file name alone, a full path, the
\* up-level form, the images/ form, and a name that no image has
RefTargets ==
    { <<"!", ".", "p">>,
      ImagesPrefix \o <<"!", ".", "p">>,
      AssetsPrefix \o <<"A", ".", "p">>,
      ImagesPrefix \o <<"A", ".", "p">>,
      <<".", "p">>,
      <<"o", ".", "p">> }

AltTexts == {"", "a"}

Tokens == {Text("# ")} \cup {Image(alt, target) : alt \in AltTexts, target \in RefTargets}

Markdowns == UNION {[1..n -> Tokens] : n \in 0..MaxTokens}

InitNormalizeMarkdown ==
    /\ InitApp
    /\ ~IS_LOCAL_DEV                         \* the function reads no setting
    /\ GITHUB_PRIVATE_KEY_SAFE = "null"
    /\ NoFilename
    /\ markdown \in Markdowns
    /\ assets \in ImageSets
    /\ rewritten = << >>
    /\ NoFrontmatter
    /\ NoForm
    /\ NoPlanning
    /\ NoCors
    /\ NoTags

ApplyNormalizeMarkdown ==
    /\ rewritten = << >>
    /\ rewritten' = <<normalizeMarkdownImagePaths(markdown, imageMapOf(assets))>>
    /\ UNCHANGED <<env, handler, trace, mints, fork, pulls, mainRefs, store, filenames,
                   markdown, assets, frontmatters, forms, plans, cors, tagManager>>

NextNormalizeMarkdown == ApplyNormalizeMarkdown

SpecNormalizeMarkdown == InitNormalizeMarkdown /\ [][NextNormalizeMarkdown]_vars

(***************************************************************************)
(* generateFrontmatter on its own: applied to submissions with and without *)
(* a website, an avatar and a title image.                                 *)
(***************************************************************************)
Websites == {"", "https://jo.example"}

FrontmatterSubmissions ==
    { [SubmissionOf(c, t, "jo@example.org", "token", b, NoFiles) EXCEPT !.website = w] :
        c \in {<< >>, CandidateName}, t \in {"", "Mayor"}, b \in {<< >>, Body},
        w \in Websites }

InitGenerateFrontmatter ==
    /\ InitApp
    /\ ~IS_LOCAL_DEV                         \* the function reads no setting
    /\ GITHUB_PRIVATE_KEY_SAFE = "null"
    /\ NoFilename
    /\ NoMarkdown
    /\ submitted \in FrontmatterSubmissions
    /\ avatarName \in {Undefined, avatarFilenameOf(slugOf(submitted.candidate))}
    /\ imageName \in {Undefined, imageFilenameOf(slugOf(submitted.candidate))}
    /\ frontmatter = << >>
    /\ NoForm
    /\ NoPlanning
    /\ NoCors
    /\ NoTags

ApplyGenerateFrontmatter ==
    /\ frontmatter = << >>
    /\ frontmatter' = <<generateFrontmatter(submitted, avatarName, imageName)>>
    /\ UNCHANGED <<env, handler, trace, mints, fork, pulls, mainRefs, store, filenames, bodies,
                   submitted, avatarName, imageName, forms, plans, cors, tagManager>>

NextGenerateFrontmatter == ApplyGenerateFrontmatter

SpecGenerateFrontmatter == InitGenerateFrontmatter /\ [][NextGenerateFrontmatter]_vars

(***************************************************************************)
(* From the form to the files array: the form's submit handler builds the  *)
(* payload from the editor's value and the images it has stored, and       *)
(* createCandidatePR builds its files from that payload.                   *)
(***************************************************************************)
\* file.name.replace(/[^a-zA-Z0-9.]/g, '-').toLowerCase()
safeNameOf(name) ==
    toLowerCase([k \in 1..Len(name) |->
                   IF toLowerCaseChar(name[k]) \in Alnum \cup {"."} THEN name[k] ELSE "-"])

\* ImageManager.add: the entry stored under a short id
ImageManagerAdd(id, name, base64) ==
    [id |-> id, base64 |-> base64, filename |-> ImagesPrefix \o id \o <<"-">> \o safeNameOf(name)]

\* ImageManager.store after a PNG and an SVG file were added in the editor
ImageManagerStore ==
    { ImageManagerAdd(<<"i","m","g","-","1">>, <<"M","y"," ","P",".","P","N","G">>,
                      "data:image/jpeg;base64,base64-png"),
      ImageManagerAdd(<<"i","m","g","-","2">>, <<"l","o","g","o",".","s","v","g">>,
                      "data:image/svg+xml;base64,base64-svg") }

\* ![alt](image:shortId), as the editor writes it
ImageScheme == <<"i","m","a","g","e",":">>

\* the stored image a token refers to, if it is ![alt](image:shortId) and
\* ImageManager.store has the id
storedFor(token) ==
    {img \in ImageManagerStore : token.kind = "image" /\ token.target = ImageScheme \o img.id}

\* imgData.base64.split(',')[1]
afterComma(base64) ==
    IF base64 = "data:image/jpeg;base64,base64-png" THEN "base64-png"
    ELSE IF base64 = "data:image/svg+xml;base64,base64-svg" THEN "base64-svg"
    ELSE base64

\* replacements: one entry per match of imageRegex whose id is in the store
replacements(finalContent) ==
    SelectSeq([n \in 1..Len(finalContent) |->
                 IF storedFor(finalContent[n]) = {} THEN << >>
                 ELSE LET imgData == CHOOSE img \in storedFor(finalContent[n]) : TRUE
                      IN  <<[imageData |-> [path |-> imgData.filename,
                                            content |-> afterComma(imgData.base64)]]>>],
              LAMBDA r : r # << >>)

\* finalContent after replacements.forEach: each matched reference names
\* the stored file
finalContentOf(value) ==
    [n \in 1..Len(value) |->
       IF storedFor(value[n]) = {} THEN value[n]
       ELSE [value[n] EXCEPT !.target = (CHOOSE img \in storedFor(value[n]) : TRUE).filename]]

\* additionalImages after replacements.forEach
additionalImagesOf(value) ==
    [n \in 1..Len(replacements(value)) |-> replacements(value)[n][1].imageData]

EditorTokens ==
    {Text("# ")} \cup
    {Image(alt, ImageScheme \o id) :
        alt \in {"a", "b"},
        id \in {<<"i","m","g","-","1">>, <<"i","m","g","-","2">>, <<"i","m","g","-","9">>}}

EditorValues == UNION {[1..n -> EditorTokens] : n \in 0..MaxTokens}

InitForm ==
    /\ InitApp
    /\ ~IS_LOCAL_DEV                         \* neither function reads a setting
    /\ GITHUB_PRIVATE_KEY_SAFE = "null"
    /\ NoFilename
    /\ NoMarkdown
    /\ NoFrontmatter
    /\ editor \in [value : EditorValues,
                   avatarImage : {"", "data:image/png;base64,AA"},
                   titleImage : {"", "data:image/png;base64,BB"}]
    /\ payload = << >>
    /\ fileSet = << >>
    /\ NoPlanning
    /\ NoCors
    /\ NoTags

\* the form's submit handler builds the payload
FormSubmit ==
    /\ payload = << >>
    /\ payload' = <<SubmissionOf(CandidateName, "Mayor", "jo@example.org", "token",
                                 finalContentOf(editor.value),
                                 [avatarImage |-> editor.avatarImage,
                                  titleImage |-> editor.titleImage,
                                  additionalImages |-> additionalImagesOf(editor.value)])>>
    /\ UNCHANGED <<env, handler, trace, mints, fork, pulls, mainRefs, store, filenames, bodies,
                   frontmatters, editor, fileSet, plans, cors, tagManager>>

\* createCandidatePR builds its files array from the payload
BuildFiles ==
    /\ payload # << >>
    /\ fileSet = << >>
    /\ LET submission == payload[1]
           slug == slugOf(submission.candidate)
       IN  fileSet' = <<filesOf(submission, slug,
                                candidatePathOf(yearOf(submission.electionDate), slug))>>
    /\ UNCHANGED <<env, handler, trace, mints, fork, pulls, mainRefs, store, filenames, bodies,
                   frontmatters, editor, payload, plans, cors, tagManager>>

NextForm == FormSubmit \/ BuildFiles

SpecForm == InitForm /\ [][NextForm]_vars

(***************************************************************************)
(* The first lines of createCandidatePR on their own: slug, branchName,    *)
(* year and candidatePath of every submission that passes the handler's    *)
(* required-field checks, over candidate names of up to MaxNameLen         *)
(* characters and several election dates.                                  *)
(***************************************************************************)
MaxNameLen == 3

NameChars == {"J", "o", " ", "!"}

CandidateNames == UNION {[1..n -> NameChars] : n \in 0..MaxNameLen}

\* an ISO date, a date written with slashes, an empty date, and no date at all
ElectionDates ==
    { ElectionDate,
      <<"1","1","/","0","3","/","2","0","2","6">>,
      << >>,
      Undefined }

InitPlan ==
    /\ InitApp
    /\ ~IS_LOCAL_DEV                         \* these lines read no setting
    /\ GITHUB_PRIVATE_KEY_SAFE = "null"
    /\ NoFilename
    /\ NoMarkdown
    /\ NoFrontmatter
    /\ NoForm
    /\ validated \in { [SubmissionOf(c, "Mayor", "jo@example.org", "token", Body, NoFiles)
                          EXCEPT !.electionDate = d] :
                       c \in CandidateNames, d \in ElectionDates }
    /\ planned = << >>
    /\ NoCors
    /\ NoTags

\* The submission passes the required-field checks and createCandidatePR
\* runs up to its first await; undefined.split throws a TypeError.
ApplyPlan ==
    /\ planned = << >>
    /\ validationErrors(validated) = << >>
    /\ planned' = IF validated.electionDate = Undefined
                  THEN <<[threw |-> TRUE, plan |-> NoPlan]>>
                  ELSE <<[threw |-> FALSE,
                          plan |-> planOf(validated, CHOOSE id \in UUIDs : TRUE)]>>
    /\ UNCHANGED <<env, handler, trace, mints, fork, pulls, mainRefs, store, filenames,
                   bodies, frontmatters, forms, validated, cors, tagManager>>

NextPlan == ApplyPlan

SpecPlan == InitPlan /\ [][NextPlan]_vars

(***************************************************************************)
(* getCorsHeaders on its own: the allow-list is computed from every        *)
(* setting of up to MaxSettingLen characters, and the header from every    *)
(* Origin header.  Origins are one character long here.                    *)
(***************************************************************************)
MaxSettingLen == 3

SettingChars == {"a", "b", ",", " "}

\* process.env.ALLOWED_ORIGINS; << >> when it is not set or set to ""
Settings == UNION {[1..n -> SettingChars] : n \in 0..MaxSettingLen}

\* the Origin header, << >> when the request has none
OriginHeaders == {<< >>, <<"a">>, <<"b">>, <<"c">>}

DefaultOrigin == <<"https://www.democracycandidate.us">>

\* s.split(",")
RECURSIVE splitAtCommas(_)
splitAtCommas(s) ==
    LET commas == {k \in 1..Len(s) : s[k] = ","}
    IN  IF commas = {} THEN <<s>>
        ELSE LET first == CHOOSE k \in commas : \A j \in commas : k <= j
             IN  <<SubSeq(s, 1, first - 1)>> \o splitAtCommas(SubSeq(s, first + 1, Len(s)))

\* o.trim()
RECURSIVE trim(_)
trim(o) ==
    IF o # << >> /\ Head(o) = " " THEN trim(Tail(o))
    ELSE IF o # << >> /\ o[Len(o)] = " " THEN trim(SubSeq(o, 1, Len(o) - 1))
    ELSE o

\* (process.env.ALLOWED_ORIGINS || default).split(",").map(o => o.trim()).filter(Boolean)
allowedOriginsOf(setting) ==
    LET parts == splitAtCommas(IF setting = << >> THEN DefaultOrigin ELSE setting)
    IN  SelectSeq([k \in 1..Len(parts) |-> trim(parts[k])], LAMBDA o : o # << >>)

\* ALLOWED_ORIGINS.includes(origin) ? origin : ALLOWED_ORIGINS[0]
allowedOriginOf(allowed, origin) ==
    IF \E k \in 1..Len(allowed) : allowed[k] = origin THEN origin
    ELSE IF allowed = << >> THEN Undefined
    ELSE allowed[1]

InitCors ==
    /\ InitApp
    /\ ~IS_LOCAL_DEV                         \* the function reads no other setting
    /\ GITHUB_PRIVATE_KEY_SAFE = "null"
    /\ NoFilename
    /\ NoMarkdown
    /\ NoFrontmatter
    /\ NoForm
    /\ NoPlanning
    /\ configured \in Settings
    /\ requestOrigin \in OriginHeaders
    /\ corsOrigin = << >>
    /\ NoTags

ApplyCors ==
    /\ corsOrigin = << >>
    /\ corsOrigin' = <<allowedOriginOf(allowedOriginsOf(configured), requestOrigin)>>
    /\ UNCHANGED <<env, handler, trace, mints, fork, pulls, mainRefs, store, filenames,
                   bodies, frontmatters, forms, plans, configured, requestOrigin, tagManager>>

NextCors == ApplyCors

SpecCors == InitCors /\ [][NextCors]_vars

(***************************************************************************)
(* The form's tag manager: the visitor types into the tag entry, presses   *)
(* Enter or leaves the field, removes and edits tags, presses Backspace in *)
(* the empty entry, and submits.                                           *)
(***************************************************************************)
\* \w
WordChars == Alnum \cup {UpperCase[k] : k \in 1..26} \cup {"_"}

toUpperCaseChar(c) ==
    IF \E k \in 1..26 : LowerCase[k] = c
    THEN UpperCase[CHOOSE k \in 1..26 : LowerCase[k] = c]
    ELSE c

\* String.prototype.toUpperCase: a letter to its capital, and the sharp s,
\* which has no capital of its own, to SS
toUpperCase(s) ==
    Concat([k \in 1..Len(s) |-> IF s[k] = "ß" THEN <<"S", "S">> ELSE <<toUpperCaseChar(s[k])>>])

\* str.replace(/\w\S*/g, txt => txt.charAt(0).toUpperCase() + txt.substr(1).toLowerCase()):
\* a match starts at the first word character after a blank or the start and
\* runs to the next blank
toTitleCase(str) ==
    [k \in 1..Len(str) |->
       LET blanks == {j \in 1..(k - 1) : str[j] \in Whitespace}
           runStart == IF blanks = {} THEN 1
                       ELSE 1 + CHOOSE j \in blanks : \A b \in blanks : b <= j
           inMatch == \E j \in runStart..(k - 1) : str[j] \in WordChars
       IN  IF str[k] \in Whitespace THEN str[k]
           ELSE IF inMatch THEN toLowerCaseChar(str[k])
           ELSE IF str[k] \in WordChars THEN toUpperCaseChar(str[k])
           ELSE str[k]]

\* parts.join(', ')
RECURSIVE joinParts(_)
joinParts(parts) ==
    IF parts = << >> THEN << >>
    ELSE IF Len(parts) = 1 THEN parts[1]
    ELSE parts[1] \o <<",", " ">> \o joinParts(Tail(parts))

\* formatTag: "City, ST" when the last of several parts has two characters,
\* title case otherwise
formatTag(tag) ==
    IF tag = << >> THEN << >>
    ELSE LET split == splitAtCommas(tag)
             parts == [k \in 1..Len(split) |-> trim(split[k])]
         IN  IF Len(parts) > 1 /\ Len(parts[Len(parts)]) = 2
             THEN joinParts([k \in 1..Len(parts) |->
                               IF k = Len(parts) THEN toUpperCase(parts[k])
                               ELSE toTitleCase(parts[k])])
             ELSE toTitleCase(tag)

\* what the visitor types into the tag entry
TypedTags ==
    { << >>,
      <<" ">>,
      <<"a", "B">>,
      <<" ", "A", "b", " ">>,
      <<"a", " ", ",", "i", "L">>,
      <<"a", ",", "b">>,
      <<"a", ",", "ß", "l">> }

includes(tags, val) == \E k \in 1..Len(tags) : tags[k] = val

\* currentTags.splice(index, 1)
splice(tags, index) == SubSeq(tags, 1, index - 1) \o SubSeq(tags, index + 1, Len(tags))

InitTags ==
    /\ InitApp
    /\ ~IS_LOCAL_DEV                         \* the form reads no setting
    /\ GITHUB_PRIVATE_KEY_SAFE = "null"
    /\ NoFilename
    /\ NoMarkdown
    /\ NoFrontmatter
    /\ NoForm
    /\ NoPlanning
    /\ NoCors
    /\ NoTags

Untouched ==
    UNCHANGED <<env, handler, trace, mints, fork, pulls, mainRefs, store, filenames,
                bodies, frontmatters, forms, plans, cors>>

\* The visitor changes the text of the tag entry.
Input ==
    /\ formattedTags = << >>
    /\ \E typed \in TypedTags : tagEntry' = typed
    /\ UNCHANGED <<currentTags, formattedTags>>
    /\ Untouched

\* addCurrentTag, on Enter and on blur
addCurrentTag ==
    /\ formattedTags = << >>
    /\ LET trimmed == trim(tagEntry)
           val == IF trimmed # << >> THEN formatTag(trimmed) ELSE trimmed
       IN  IF val # << >> /\ ~includes(currentTags, val)
           THEN /\ currentTags' = Append(currentTags, val)
                /\ tagEntry' = << >>
           ELSE IF includes(currentTags, val)
           THEN /\ tagEntry' = << >>
                /\ UNCHANGED currentTags
           ELSE UNCHANGED <<currentTags, tagEntry>>
    /\ UNCHANGED formattedTags
    /\ Untouched

\* window.removeTag
removeTag ==
    /\ formattedTags = << >>
    /\ \E index \in 1..Len(currentTags) : currentTags' = splice(currentTags, index)
    /\ UNCHANGED <<tagEntry, formattedTags>>
    /\ Untouched

\* window.editTag
editTag ==
    /\ formattedTags = << >>
    /\ \E index \in 1..Len(currentTags) :
         /\ currentTags' = splice(currentTags, index)
         /\ tagEntry' = currentTags[index]
    /\ UNCHANGED formattedTags
    /\ Untouched

\* keydown of Backspace while the entry is empty
Backspace ==
    /\ formattedTags = << >>
    /\ tagEntry = << >>
    /\ Len(currentTags) > 0
    /\ currentTags' = SubSeq(currentTags, 1, Len(currentTags) - 1)
    /\ UNCHANGED <<tagEntry, formattedTags>>
    /\ Untouched

\* The form is submitted once validateForm has found a tag; the manager is
\* followed up to here.
SubmitTags ==
    /\ formattedTags = << >>
    /\ Len(currentTags) > 0
    /\ formattedTags' = <<[k \in 1..Len(currentTags) |-> formatTag(currentTags[k])]>>
    /\ UNCHANGED <<currentTags, tagEntry>>
    /\ Untouched

NextTags ==
    \/ Input
    \/ addCurrentTag
    \/ removeTag
    \/ editTag
    \/ Backspace
    \/ SubmitTags

SpecTags == InitTags /\ [][NextTags]_vars

(***************************************************************************)
(* Properties                                                              *)
(***************************************************************************)
\* the operations of the repository-hosting API
HostingOps ==
    { "repos.get(fork)", "git.getRef", "repos.get(main)", "git.createRef", "git.getTree",
      "git.createBlob", "git.createTree", "git.createCommit", "git.updateRef", "pulls.create" }

Logged(i, event) == \E n \in 1..Len(trace[i]) : trace[i][n] = event

\* the events of invocation i at the hosting API, in order
hostingEvents(i) == SelectSeq(trace[i], LAMBDA e : e[2] \in HostingOps)

\* some call of createCandidatePR has failed
hostingFailed(i) == \E n \in 1..Len(trace[i]) : trace[i][n][1] = "err" /\ trace[i][n][2] \in HostingOps

\* the pull requests whose body carries invocation i's correlation id
pullsOf(i) == {n \in 1..Len(pulls) : pulls[n].body.correlationId = correlationId[i]}

\* the contact blobs stored under invocation i's correlation id
contactBlobsOf(i) == {b \in contactBlobs : b.name = blobNameOf(correlationId[i])}

\* the publication step is skipped
skipsPublication == IS_LOCAL_DEV /\ GITHUB_PRIVATE_KEY_SAFE = "null"

anyRequiredFieldEmpty(submission) ==
    \/ submission.candidate = << >>
    \/ submission.title = ""
    \/ submission.contactEmail = ""
    \/ submission.turnstileToken = ""
    \/ submission.content = << >>

\* C1: createCandidatePR either opens exactly one pull request in the main
\* repository and returns its URL, or fails having opened none; no
\* invocation opens more than one, and every pull request is some
\* invocation's.
C1_OnePullRequestOrNone ==
    /\ \A i \in Invocations :
         /\ Cardinality(pullsOf(i)) <= 1
         /\ Logged(i, Ok("pulls.create", "")) =>
              /\ Cardinality(pullsOf(i)) = 1
              /\ \A n \in pullsOf(i) : prUrl[i] = pulls[n].html_url
         /\ ~Logged(i, Ok("pulls.create", "")) => pullsOf(i) = {}
         /\ hostingFailed(i) => pullsOf(i) = {} /\ prUrl[i] = << >>
    /\ \A n \in 1..Len(pulls) : \E i \in Invocations : n \in pullsOf(i)

\* C1 witness: one invocation has opened its pull request, the other has
\* failed after creating its branch.
C1_Witness ==
    \E i, j \in Invocations :
        /\ Cardinality(pullsOf(i)) = 1
        /\ prUrl[i] # << >>
        /\ Logged(j, Ok("git.createRef", ""))
        /\ hostingFailed(j)

\* C2: a parsed submission with an empty candidate, title, contactEmail,
\* turnstileToken or content is answered 400 with success false and a
\* non-empty error list, and the invocation calls nothing, mints no
\* correlation id and stores no contact record.
C2_InvalidIs400WithoutEffects ==
    \A i \in Invocations :
        ( /\ request[i].method = "POST"
          /\ request[i].parseable
          /\ anyRequiredFieldEmpty(request[i].submission) ) =>
            /\ pc[i] \in {"request.json", "returned"}
            /\ pc[i] = "returned" =>
                 /\ response[i].status = 400
                 /\ response[i].success = FALSE
                 /\ Len(response[i].errors) > 0
            /\ trace[i] = << >>
            /\ mints[i] = << >>
            /\ correlationId[i] = Undefined
            /\ contactBlobsOf(i) = {}

\* C2 witness: a 400 answer listing two errors, beside an invocation that
\* has stored a contact record.
C2_Witness ==
    \E i, j \in Invocations :
        /\ response[i].status = 400
        /\ Len(response[i].errors) = 2
        /\ response[j].status = 200

\* C3: when the verification oracle answers false the invocation returns
\* 401, having issued no other call, minted no correlation id, created no
\* branch or commit and stored no contact record.
C3_RejectedTokenIs401WithoutEffects ==
    \A i \in Invocations :
        Logged(i, Ok("siteverify", "false")) =>
            /\ pc[i] = "returned"
            /\ response[i].status = 401
            /\ response[i].success = FALSE
            /\ trace[i] = <<Call("siteverify", ""), Ok("siteverify", "false")>>
            /\ mints[i] = << >>
            /\ correlationId[i] = Undefined
            /\ plan[i] = NoPlan
            /\ contactBlobsOf(i) = {}

\* C3 witness: a 401 answer after the oracle's false.
C3_Witness ==
    \E i \in Invocations :
        /\ response[i].status = 401
        /\ Logged(i, Ok("siteverify", "false"))
        /\ validationErrors(request[i].submission) = << >>

\* C4: whenever an invocation has returned 200, a contact record is stored
\* under the blob name derived from the returned correlationId, its
\* pullRequestUrl is the response's pullRequestUrl, and that URL is not empty.
C4_OkResponseMatchesStoredRecord ==
    \A i \in Invocations :
        response[i].status = 200 =>
            /\ response[i].pullRequestUrl # << >>
            /\ response[i].pullRequestUrl # Undefined
            /\ response[i].correlationId # << >>
            /\ \E b \in contactBlobs :
                 /\ b.name = blobNameOf(response[i].correlationId)
                 /\ b.content.correlationId = response[i].correlationId
                 /\ b.content.pullRequestUrl = response[i].pullRequestUrl

\* C4 witness: a 200 answer carrying the URL of a pull request of the main
\* repository.
C4_Witness ==
    \E i \in Invocations :
        /\ response[i].status = 200
        /\ \E n \in 1..Len(pulls) : pulls[n].html_url = response[i].pullRequestUrl


\* C5: an invocation writes its contact record at most once, only after the
\* publication step has completed (pull request opened, or publication
\* skipped), never after a failed validation, verification or publication;
\* a stored record is never modified or removed.
C5_ContactRecordWrittenOnce ==
    /\ [](\A i \in Invocations :
            /\ Cardinality({n \in 1..Len(trace[i]) : trace[i][n] = Call("upload", "")}) <= 1
            /\ contactBlobsOf(i) # {} => Logged(i, Ok("upload", ""))
            /\ Logged(i, Call("upload", "")) =>
                 \/ Logged(i, Ok("pulls.create", ""))
                 \/ skipsPublication /\ prUrl[i] = MockPrUrl /\ hostingEvents(i) = << >>
            /\ response[i].status \in {400, 401} =>
                 ~Logged(i, Call("upload", "")) /\ contactBlobsOf(i) = {}
            /\ hostingFailed(i) =>
                 ~Logged(i, Call("upload", "")) /\ contactBlobsOf(i) = {})
    /\ [][\A b \in contactBlobs : b \in contactBlobs']_vars

\* C5 witness: one invocation has stored its record after opening its pull
\* request, the other has failed at the hosting API and stored none.
C5_Witness ==
    \E i, j \in Invocations :
        /\ Logged(i, Ok("pulls.create", ""))
        /\ Logged(i, Ok("upload", ""))
        /\ contactBlobsOf(i) # {}
        /\ hostingFailed(j)
        /\ response[j].status = 500

\* the submission of invocation i has passed validation and verification
verified(i) ==
    /\ request[i].method = "POST"
    /\ request[i].parseable
    /\ ~anyRequiredFieldEmpty(request[i].submission)
    /\ IF IS_LOCAL_DEV
       THEN pc[i] \notin {"idle", "request.json", "verifyTurnstile"}
       ELSE Logged(i, Ok("siteverify", "true"))

\* C6: a correlation id is minted exactly once for an invocation that passes
\* validation and verification and never for another; that one id ends the
\* branch name (its first 8 characters), is in the pull request's body, names
\* the contact record and is in the 200 response; two invocations never
\* share an id.
C6_OneCorrelationIdPerAcceptedSubmission ==
    /\ \A i \in Invocations :
         /\ Len(mints[i]) <= 1
         /\ verified(i) /\ pc[i] # "accepted" =>
              Len(mints[i]) = 1 /\ correlationId[i] = mints[i][1]
         /\ ~verified(i) \/ pc[i] = "accepted" =>
              mints[i] = << >> /\ correlationId[i] = Undefined
         /\ plan[i] # NoPlan =>
              endsWith(plan[i].branchName, <<"-">> \o SubSeq(mints[i][1], 1, SliceLen))
         /\ Logged(i, Ok("pulls.create", "")) =>
              \E n \in 1..Len(pulls) :
                  /\ pulls[n].html_url = prUrl[i]
                  /\ pulls[n].body.correlationId = mints[i][1]
         /\ Logged(i, Ok("upload", "")) =>
              \E b \in contactBlobs :
                  /\ b.name = mints[i][1] \o <<".json">>
                  /\ b.content.correlationId = mints[i][1]
         /\ response[i].status = 200 => response[i].correlationId = mints[i][1]
    /\ \A i, j \in Invocations :
         i # j /\ mints[i] # << >> /\ mints[j] # << >> => mints[i][1] # mints[j][1]

\* C6 witness: both invocations have minted an id; one has returned 200
\* with its pull request, the other has failed after minting.
C6_Witness ==
    \E i, j \in Invocations :
        /\ i # j
        /\ mints[i] # << >>
        /\ mints[j] # << >>
        /\ response[i].status = 200
        /\ Logged(i, Ok("pulls.create", ""))
        /\ response[j].status = 500

\* the operations an invocation can have logged before the contact store
PublicationOps == HostingOps \cup {"siteverify", "auth"}

\* C7: when a hosting call fails after the branch was created, the
\* invocation returns 500, issues no call after the failure (no deletion, no
\* rollback), the branch stays in the fork repository where this invocation
\* left it, and no contact record is stored.
C7_FailureAfterBranchLeavesOrphan ==
    \A i \in Invocations :
        Logged(i, Ok("git.createRef", "")) /\ hostingFailed(i) =>
            /\ pc[i] = "returned"
            /\ response[i] = Response500
            /\ plan[i].branchName \in DOMAIN forkRefs
            /\ forkRefs[plan[i].branchName] \in {plan[i].refSha, plan[i].commit}
            /\ LET H == hostingEvents(i)
                   failure == CHOOSE n \in 1..Len(H) :
                                 /\ H[n][1] = "err"
                                 /\ \A m \in 1..(n-1) : H[m][1] # "err"
               IN  \A n \in (failure + 1)..Len(H) : H[n][1] # "call"
            /\ \A n \in 1..Len(trace[i]) : trace[i][n][2] \in PublicationOps
            /\ contactBlobsOf(i) = {}

\* C7 witness: updateRef has failed on a branch this invocation created.
C7_Witness ==
    \E i \in Invocations :
        /\ Logged(i, Ok("git.createRef", ""))
        /\ Logged(i, Err("git.updateRef", ""))
        /\ response[i].status = 500
        /\ plan[i].branchName \in DOMAIN forkRefs

\* C8: when createIfNotExists or upload fails after the pull request was
\* opened, the invocation returns 500 with an empty correlationId, the pull
\* request stays, and no contact record exists under its correlation id.
C8_StorageFailureLeavesPullRequest ==
    \A i \in Invocations :
        ( /\ Logged(i, Ok("pulls.create", ""))
          /\ \/ Logged(i, Err("createIfNotExists", ""))
             \/ Logged(i, Err("upload", "")) ) =>
            /\ pc[i] = "returned"
            /\ response[i].status = 500
            /\ response[i].success = FALSE
            /\ response[i].correlationId = << >>
            /\ Cardinality(pullsOf(i)) = 1
            /\ contactBlobsOf(i) = {}

\* C8 witness: the upload has failed after the pull request was opened.
C8_Witness ==
    \E i \in Invocations :
        /\ Logged(i, Ok("pulls.create", ""))
        /\ Logged(i, Err("upload", ""))
        /\ pullsOf(i) # {}

\* C9 as stated: when the publication is skipped no hosting call is issued
\* and the contact record is stored with an empty pullRequestUrl.
C9_SkippedPublicationStoresEmptyUrl ==
    \A i \in Invocations :
        skipsPublication =>
            /\ hostingEvents(i) = << >>
            /\ \A b \in contactBlobsOf(i) : b.content.pullRequestUrl = << >>

\* C9, amended: when the publication is skipped no hosting call is issued,
\* no token is requested, and the contact record is stored with
\* pullRequestUrl equal to the placeholder http://localhost:mock-pr-url.
C9_SkippedPublicationStoresMockUrl ==
    \A i \in Invocations :
        skipsPublication =>
            /\ hostingEvents(i) = << >>
            /\ ~Logged(i, Call("auth", ""))
            /\ plan[i] = NoPlan
            /\ pulls = << >>
            /\ Logged(i, Ok("upload", "")) => contactBlobsOf(i) # {}
            /\ \A b \in contactBlobsOf(i) : b.content.pullRequestUrl = MockPrUrl

\* C9 witness: a 200 answer of a skipped publication, its record stored.
C9_Witness ==
    \E i \in Invocations :
        /\ skipsPublication
        /\ response[i].status = 200
        /\ contactBlobsOf(i) # {}

\* the place of each hosting operation in createCandidatePR
Rank(op) ==
    CASE op = "repos.get(fork)" -> 1
      [] op = "git.getRef" -> 2
      [] op = "repos.get(main)" -> 3
      [] op = "git.createRef" -> 4
      [] op = "git.getTree" -> 5
      [] op = "git.createBlob" -> 6
      [] op = "git.createTree" -> 7
      [] op = "git.createCommit" -> 8
      [] op = "git.updateRef" -> 9
      [] op = "pulls.create" -> 10

fileIndex(d) == CHOOSE k \in 1..9 : DigitChar[k] = d

hostingCalls(i) == SelectSeq(hostingEvents(i), LAMBDA e : e[1] = "call")

\* C10: the hosting calls of an invocation are issued in the order get fork
\* repository, get ref, get main repository, create ref, get tree, create
\* blobs (in file order, none when no file is binary), create tree, create
\* commit, update ref, create pull request; a call is issued only after
\* every earlier call has returned successfully, except that create-blob
\* calls are issued while earlier create-blob calls are in flight.
C10_HostingCallsInOrder ==
    \A i \in Invocations :
        LET H == hostingEvents(i)
            C == hostingCalls(i)
        IN  /\ C # << >> => C[1][2] = "repos.get(fork)"
            /\ \A n \in 1..(Len(C) - 1) :
                 \/ Rank(C[n+1][2]) = Rank(C[n][2]) + 1
                 \/ /\ C[n][2] = "git.createBlob"
                    /\ C[n+1][2] = "git.createBlob"
                    /\ fileIndex(C[n][3]) < fileIndex(C[n+1][3])
                 \/ /\ C[n][2] = "git.getTree"
                    /\ C[n+1][2] = "git.createTree"
                    /\ \A k \in 1..Len(plan[i].files) : plan[i].files[k].encoding # "base64"
            /\ \A p \in 1..Len(H) :
                 H[p][1] = "call" =>
                   \A q \in 1..(p - 1) :
                     H[q][1] = "call" =>
                       \/ H[q][2] = "git.createBlob" /\ H[p][2] = "git.createBlob"
                       \/ \E r \in (q + 1)..(p - 1) : H[r] = Ok(H[q][2], H[q][3])

\* C10 witness: an invocation has gone through all ten operations, two of
\* its create-blob calls in flight at once.
C10_Witness ==
    \E i \in Invocations :
        /\ Logged(i, Ok("pulls.create", ""))
        /\ \E n \in 1..(Len(trace[i]) - 1) :
             /\ trace[i][n][1] = "call" /\ trace[i][n][2] = "git.createBlob"
             /\ trace[i][n+1][1] = "call" /\ trace[i][n+1][2] = "git.createBlob"

\* C11: within one invocation no external call is issued twice (the two
\* repositories are read once each, createBlob is called once per binary
\* file and for no other file, the oracle, the container call and the upload
\* once), and no call is issued after a call has failed.
C11_NoRetry ==
    \A i \in Invocations :
        /\ \A n \in 1..Len(trace[i]) :
             trace[i][n][1] = "call" =>
                 \A m \in (n + 1)..Len(trace[i]) : trace[i][m] # trace[i][n]
        /\ \A n \in 1..Len(trace[i]) :
             trace[i][n][1] = "call" /\ trace[i][n][2] = "git.createBlob" =>
                 \E k \in 1..Len(plan[i].files) :
                     /\ DigitChar[k] = trace[i][n][3]
                     /\ plan[i].files[k].encoding = "base64"
        /\ \A n \in 1..Len(trace[i]) :
             trace[i][n][1] = "err" =>
                 \A m \in (n + 1)..Len(trace[i]) : trace[i][m][1] # "call"

\* C11 witness: one invocation has created its two blobs and stored its
\* record, the other has stopped at a failed hosting call.
C11_Witness ==
    \E i, j \in Invocations :
        /\ response[i].status = 200
        /\ Cardinality({n \in 1..Len(trace[i]) :
                          trace[i][n][1] = "call" /\ trace[i][n][2] = "git.createBlob"}) = 2
        /\ hostingFailed(j)
        /\ response[j].status = 500

\* other values of the five contact fields
ContactChoices ==
    { [contactEmail |-> "alex@example.org", contactPhone |-> "777", contactNotes |-> "evenings",
       submitterName |-> "Alex", submitterRelationship |-> "staff"],
      [contactEmail |-> "kim@example.org", contactPhone |-> "", contactNotes |-> "",
       submitterName |-> "", submitterRelationship |-> ""] }

\* the submission with its contact fields replaced
WithContact(submission, c) ==
    [submission EXCEPT !.contactEmail = c.contactEmail, !.contactPhone = c.contactPhone,
                       !.contactNotes = c.contactNotes, !.submitterName = c.submitterName,
                       !.submitterRelationship = c.submitterRelationship]

\* C12: what an invocation has handed to the hosting API when a call returns
\* (branch name and directory, file paths and contents, tree, commit
\* message, pull request title and body) is what the same submission with
\* any other contact fields and the same correlation id yields: no contact
\* field reaches a hosting call.
C12_ContactFieldsNotPublished ==
    \A i \in Invocations : \A c \in ContactChoices :
        LET other == WithContact(request[i].submission, c)
            names == planOf(other, correlationId[i])
            files == filesOf(other, names.slug, names.candidatePath)
        IN  /\ pc[i] = "repos.get(fork)" =>
                 /\ plan[i].slug = names.slug
                 /\ plan[i].branchName = names.branchName
                 /\ plan[i].candidatePath = names.candidatePath
            /\ pc[i] = "git.getTree" =>
                 /\ plan[i].branchName = names.branchName
                 /\ plan[i].files = files
            /\ pc[i] = "git.createCommit" =>
                 \E tr \in forkTrees :
                     /\ tr.sha = plan[i].newTree
                     /\ tr.tree = treeItemsOf(files, blobCalls[i])
            /\ pc[i] = "git.updateRef" =>
                 commitOf(plan[i].commit).message = commitMessageOf(other)
            /\ pc[i] = "createIfNotExists" /\ plan[i] # NoPlan =>
                 \E n \in 1..Len(pulls) :
                     /\ pulls[n].html_url = prUrl[i]
                     /\ pulls[n] = pullOf(other, correlationId[i], names.branchName,
                                          plan[i].mainRepoDefault, n)

\* C12 witness: a pull request of a submission with contact details, an
\* inline image and a rewritten body.
C12_Witness ==
    \E i \in Invocations :
        /\ Logged(i, Ok("pulls.create", ""))
        /\ request[i].submission.contactEmail # ""
        /\ request[i].submission.submitterName # ""
        /\ Len(plan[i].files) = 3
        /\ plan[i].files[3].content[2][13][2][2].target =
               <<"m","y","-","p",".","p","n","g">>

\* C13: every 500 response has one and the same body: success false, the
\* fixed message, correlationId the empty string, no other field, whichever
\* call failed and whether or not a correlation id had been minted.
C13_One500Body ==
    /\ \A i \in Invocations :
         response[i].status = 500 =>
             /\ response[i].success = FALSE
             /\ response[i].message =
                    "An error occurred processing your submission. Please try again."
             /\ response[i].correlationId = << >>
             /\ response[i].pullRequestUrl = Undefined
             /\ response[i].errors = << >>
    /\ \A i, j \in Invocations :
         response[i].status = 500 /\ response[j].status = 500 => response[i] = response[j]

\* C13 witness: two 500 responses, one of an invocation that failed after
\* minting its id and opening its pull request, one of an invocation whose
\* body could not be parsed.
C13_Witness ==
    \E i, j \in Invocations :
        /\ response[i].status = 500
        /\ response[j].status = 500
        /\ mints[i] # << >>
        /\ Logged(i, Err("upload", ""))
        /\ mints[j] = << >>
        /\ ~request[j].parseable

\* C14 as stated: two invocations with the same candidate name and different
\* correlation ids derive different branch names.
C14_DifferentIdsDifferentBranches ==
    \A i, j \in Invocations :
        ( /\ i # j
          /\ plan[i] # NoPlan
          /\ plan[j] # NoPlan
          /\ request[i].submission.candidate = request[j].submission.candidate
          /\ correlationId[i] # correlationId[j] ) =>
            plan[i].branchName # plan[j].branchName

\* C14, amended: a branch name is form-{slug}-{first 8 characters of the
\* correlation id}; two invocations with the same candidate name derive
\* different branch names exactly when their correlation ids differ within
\* the first 8 characters.
C14_BranchNameFromIdPrefix ==
    /\ \A i \in Invocations :
         plan[i] # NoPlan =>
             plan[i].branchName =
                 <<"f","o","r","m","-">> \o slugOf(request[i].submission.candidate)
                     \o <<"-">> \o SubSeq(correlationId[i], 1, 8)
    /\ \A i, j \in Invocations :
         ( /\ i # j
           /\ plan[i] # NoPlan
           /\ plan[j] # NoPlan
           /\ request[i].submission.candidate = request[j].submission.candidate ) =>
             /\ correlationId[i] # correlationId[j]
             /\ plan[i].branchName # plan[j].branchName
                  <=> SubSeq(correlationId[i], 1, 8) # SubSeq(correlationId[j], 1, 8)

\* C14 witness: two invocations with the same candidate name, on two branches.
C14_Witness ==
    \E i, j \in Invocations :
        /\ request[i].submission.candidate = request[j].submission.candidate
        /\ Logged(i, Ok("git.createRef", ""))
        /\ Logged(j, Ok("git.createRef", ""))
        /\ plan[i].branchName # plan[j].branchName
        /\ SubSeq(correlationId[i], 1, 8) # SubSeq(correlationId[j], 1, 8)

\* the required fields in the order they are checked, each with its message
\* and whether the submission leaves it empty
RequiredFields(submission) ==
    << <<"Candidate name is required", submission.candidate = << >> >>,
       <<"Position title is required", submission.title = "">>,
       <<"Contact email is required", submission.contactEmail = "">>,
       <<"Turnstile token is required", submission.turnstileToken = "">>,
       <<"Content is required", submission.content = << >> >> >>

\* C15: for every combination of empty and non-empty required fields the
\* error list holds exactly one message per empty field, in the order
\* candidate, title, contactEmail, turnstileToken, content; a parsed
\* submission is answered 400 with that list iff some field is empty.
C15_OneMessagePerEmptyField ==
    \A i \in Invocations :
        (request[i].method = "POST" /\ request[i].parseable
            /\ pc[i] \notin {"idle", "request.json"}) =>
            LET fields == RequiredFields(request[i].submission)
                empty == {f \in 1..5 : fields[f][2]}
                errors == response[i].errors
            IN  /\ Len(errors) = Cardinality(empty)
                /\ \A f \in empty : \E n \in 1..Len(errors) : errors[n] = fields[f][1]
                /\ \A n, m \in 1..Len(errors) :
                     n < m => \E f, g \in empty :
                                 f < g /\ errors[n] = fields[f][1] /\ errors[m] = fields[g][1]
                /\ response[i].status = 400 <=> empty # {}
                /\ errors = << >> <=> empty = {}

\* C15 witness: contactEmail and turnstileToken are empty, the other three
\* fields are not: two messages, in that order.
C15_Witness ==
    \E i \in Invocations :
        /\ request[i].submission.candidate # << >>
        /\ request[i].submission.title # ""
        /\ request[i].submission.content # << >>
        /\ response[i].status = 400
        /\ response[i].errors = <<"Contact email is required", "Turnstile token is required">>

\* C16: without a usable key and outside local mode, a submission that has
\* passed validation and verification is answered 500; no token is
\* requested, no hosting call is issued, no contact record is written.
C16_NoKeyIs500WithoutCalls ==
    \A i \in Invocations :
        ( /\ ~IS_LOCAL_DEV
          /\ GITHUB_PRIVATE_KEY_SAFE = "null"
          /\ verified(i)
          /\ pc[i] # "accepted" ) =>
            /\ pc[i] = "returned"
            /\ response[i].status = 500
            /\ hostingEvents(i) = << >>
            /\ \A n \in 1..Len(trace[i]) : trace[i][n][2] = "siteverify"
            /\ plan[i] = NoPlan
            /\ forkRefs = (ForkDefaultBranch :> BaseCommit)
            /\ pulls = << >>
            /\ contactBlobs = {}

\* C16 witness: the oracle has accepted the token, the id is minted, the
\* key is missing and the answer is 500.
C16_Witness ==
    \E i \in Invocations :
        /\ ~IS_LOCAL_DEV
        /\ GITHUB_PRIVATE_KEY_SAFE = "null"
        /\ Logged(i, Ok("siteverify", "true"))
        /\ mints[i] # << >>
        /\ response[i].status = 500

\* the submission of invocation i has passed the required-field checks and
\* verifyTurnstile has returned or thrown
pastVerification(i) ==
    /\ request[i].method = "POST"
    /\ request[i].parseable
    /\ ~anyRequiredFieldEmpty(request[i].submission)
    /\ pc[i] \notin {"idle", "request.json", "verifyTurnstile"}

\* C17: in local mode the oracle is never called and every submission that
\* passes the required-field checks is accepted; outside local mode the
\* oracle is called once for each such submission and for no other, a true
\* result accepts it and a false result is answered 401.
C17_OracleBypassedOnlyInLocalMode ==
    \A i \in Invocations :
        LET calls == {n \in 1..Len(trace[i]) : trace[i][n] = Call("siteverify", "")}
            accepted == pc[i] = "accepted" \/ mints[i] # << >>
        IN  /\ IS_LOCAL_DEV =>
                 /\ \A n \in 1..Len(trace[i]) : trace[i][n][2] # "siteverify"
                 /\ response[i].status # 401
                 /\ pastVerification(i) => accepted
            /\ ~IS_LOCAL_DEV =>
                 /\ Cardinality(calls) = IF pastVerification(i) THEN 1 ELSE 0
                 /\ Logged(i, Ok("siteverify", "true")) => accepted /\ response[i].status # 401
                 /\ Logged(i, Ok("siteverify", "false")) =>
                        ~accepted /\ response[i].status = 401
                 /\ Logged(i, Err("siteverify", "")) => ~accepted /\ response[i].status = 500
                 /\ accepted => Logged(i, Ok("siteverify", "true"))
                 /\ response[i].status = 401 => Logged(i, Ok("siteverify", "false"))

\* C17 witness: outside local mode, one invocation accepted and one answered
\* 401, each after one call of the oracle.
C17_Witness ==
    \E i, j \in Invocations :
        /\ ~IS_LOCAL_DEV
        /\ Logged(i, Ok("siteverify", "true"))
        /\ mints[i] # << >>
        /\ Logged(j, Ok("siteverify", "false"))
        /\ response[j].status = 401

\* C18: the pull request an invocation opens has as head the branch this
\* invocation created in the fork repository, as base the default branch of
\* the main repository, as title the commit message Add Candidate {name},
\* and a body with the candidate name, the office, the party and the whole
\* correlation id.
C18_PullRequestHeadBaseTitleBody ==
    \A i \in Invocations :
        Logged(i, Ok("pulls.create", "")) =>
            \E n \in 1..Len(pulls) :
                /\ pulls[n].html_url = prUrl[i]
                /\ pulls[n].head = plan[i].branchName
                /\ pulls[n].head_repo = "fork"
                /\ Logged(i, Ok("git.createRef", ""))
                /\ plan[i].branchName \in DOMAIN forkRefs
                /\ forkRefs[plan[i].branchName] = plan[i].commit
                /\ pulls[n].base = MainDefaultBranch
                /\ pulls[n].base = plan[i].mainRepoDefault
                /\ pulls[n].title = <<"Add Candidate ">> \o request[i].submission.candidate
                /\ pulls[n].title = commitOf(plan[i].commit).message
                /\ pulls[n].body.candidate = request[i].submission.candidate
                /\ pulls[n].body.position = request[i].submission.title
                /\ pulls[n].body.party = request[i].submission.party
                /\ pulls[n].body.correlationId = correlationId[i]
                /\ Len(pulls[n].body.correlationId) > SliceLen

\* C18 witness: two pull requests, from two branches, onto the main
\* repository's default branch.
C18_Witness ==
    /\ Len(pulls) = 2
    /\ pulls[1].head # pulls[2].head
    /\ pulls[1].base = MainDefaultBranch
    /\ pulls[2].base = MainDefaultBranch
    /\ \A i \in Invocations : Logged(i, Ok("pulls.create", ""))

\* C19: an OPTIONS request is answered 204 with the four CORS headers in
\* the step that receives it; the invocation parses no body, validates
\* nothing, mints no id, issues no call, and that step changes nothing in
\* the repositories or the store.
C19_PreflightIs204WithoutEffects ==
    /\ [](\A i \in Invocations :
            request[i].method = "OPTIONS" =>
                /\ pc[i] = "returned"
                /\ response[i] = Response204
                /\ response[i].status = 204
                /\ headers[i].allowOrigin =
                       IF request[i].origin \in {"https://www.democracycandidate.us",
                                                 "http://localhost:1313"}
                       THEN request[i].origin
                       ELSE "https://www.democracycandidate.us"
                /\ headers[i].allowMethods = "POST, OPTIONS"
                /\ headers[i].allowHeaders = "Content-Type"
                /\ headers[i].maxAge = "86400"
                /\ trace[i] = << >>
                /\ mints[i] = << >>
                /\ correlationId[i] = Undefined
                /\ plan[i] = NoPlan
                /\ blobCalls[i] = << >>
                /\ contactBlobsOf(i) = {})
    /\ [][\A i \in Invocations :
            request'[i].method = "OPTIONS" =>
                \/ request[i].method = "OPTIONS" /\ pc'[i] = pc[i] /\ response'[i] = response[i]
                \/ pc[i] = "idle" /\ UNCHANGED <<trace, mints, fork, pulls, store>>]_vars

\* C19 witness: preflight requests from a listed origin and from an origin
\* that is not listed, both answered 204.
C19_Witness ==
    \E i, j \in Invocations :
        /\ request[i].method = "OPTIONS"
        /\ request[i].origin = "http://localhost:1313"
        /\ headers[i].allowOrigin = "http://localhost:1313"
        /\ response[i].status = 204
        /\ request[j].method = "OPTIONS"
        /\ request[j].origin = "https://elsewhere.example"
        /\ headers[j].allowOrigin = "https://www.democracycandidate.us"
        /\ response[j].status = 204

\* C20 as stated: normalizeFilename applied to its own result returns that
\* result, for every file name.
C20_NormalizeFilenameIdempotent ==
    Len(normalized) = 2 => normalized[2] = normalized[1]

\* The extension of a filename: the part from its last dot on, when that dot
\* is not the first character (a name such as ".png" has no extension).
extensionOf(f) ==
    LET dots == {k \in 2..Len(f) : f[k] = "."}
    IN  IF dots = {} THEN << >>
        ELSE SubSeq(f, CHOOSE k \in dots : \A j \in dots : j <= k, Len(f))

\* C21: for every filename, the output of normalizeFilename contains no
\* upper-case letter, ends with the lower-cased extension of the input, and
\* the part before that extension consists of lower-case letters and digits
\* separated by single dashes, with no dash at either end.
C21_NormalizedFilenameShape ==
    Len(normalized) >= 1 =>
        LET out == normalized[1]
            ext == toLowerCase(extensionOf(original))
            name == SubSeq(out, 1, Len(out) - Len(ext))
        IN  /\ \A k \in 1..Len(out) : \A u \in 1..26 : out[k] # UpperCase[u]
            /\ endsWith(out, ext)
            /\ \A k \in 1..Len(name) : name[k] \in Alnum \cup {"-"}
            /\ name # << >> => name[1] # "-" /\ name[Len(name)] # "-"
            /\ \A k \in 1..(Len(name) - 1) : ~(name[k] = "-" /\ name[k + 1] = "-")

\* C21 witness: "!B.B" loses its leading dash and comes out as "b.b".
C21_Witness ==
    /\ original = <<"!", "B", ".", "B">>
    /\ Len(normalized) >= 1
    /\ normalized[1] = <<"b", ".", "b">>

\* the three textual forms under which a body may refer to the key k
formsOf(k) == {k, AssetsPrefix \o k, ImagesPrefix \o k}

\* C22: for every key k of the mapping with target t and every alt text a,
\* each image reference of the body that is written ![a](k),
\* ![a](./../../assets/images/k) or ![a](images/k) comes out as exactly ![a](t).
C22_MappedReferenceRewrittenToItsTarget ==
    rewritten # << >> =>
        LET imageMap == imageMapOf(assets)
        IN  \A n \in 1..Len(markdown) : \A e \in 1..Len(imageMap) :
                (markdown[n].kind = "image" /\ markdown[n].target \in formsOf(imageMap[e][1]))
                    => rewritten[1][n] = Image(markdown[n].alt, imageMap[e][2])

\* the image references of the body that match a key of the mapping in one
\* of the three forms
mapped(n, imageMap) ==
    /\ markdown[n].kind = "image"
    /\ \E e \in 1..Len(imageMap) : markdown[n].target \in formsOf(imageMap[e][1])

\* C23: an image reference whose target matches no key of the mapping in any
\* of the three forms comes out identical, every run of text outside the
\* image references comes out identical, and with an empty mapping the
\* output equals the input.
C23_UnmappedLeftUntouched ==
    rewritten # << >> =>
        LET imageMap == imageMapOf(assets)
            updated == rewritten[1]
        IN  /\ Len(updated) = Len(markdown)
            /\ \A n \in 1..Len(markdown) :
                   ~mapped(n, imageMap) => updated[n] = markdown[n]
            /\ \A n \in 1..Len(markdown) :
                   mapped(n, imageMap) => /\ updated[n].kind = "image"
                                          /\ updated[n].alt = markdown[n].alt
            /\ imageMap = << >> => updated = markdown

\* C23 witness: of two references, the one to "o.p", which no image has, is
\* kept and the one to images/A.p is rewritten.
C23_Witness ==
    /\ rewritten # << >>
    /\ markdown = << Image("a", <<"o", ".", "p">>),
                     Image("a", ImagesPrefix \o <<"A", ".", "p">>) >>
    /\ rewritten[1] = << Image("a", <<"o", ".", "p">>),
                         Image("a", <<"a", ".", "p">>) >>

\* the values of the lines of a front matter that carry the key
linesOf(fm, key) == [n \in {m \in 1..Len(fm) : fm[m][1] = key} |-> Tail(fm[n])]

\* the key has exactly one line, and it carries the value
oneLine(fm, key, value) ==
    LET lines == linesOf(fm, key)
    IN  /\ Cardinality(DOMAIN lines) = 1
        /\ \A n \in DOMAIN lines : lines[n] = <<value>>

\* C24: generateFrontmatter writes a website line exactly when the
\* submission has a non-empty website; the avatar and image lines are always
\* written, with the empty string when the filename is absent; the draft
\* line is always false.
C24_FrontmatterOptionalLines ==
    frontmatter # << >> =>
        LET fm == frontmatter[1]
        IN  /\ IF submitted.website # ""
               THEN oneLine(fm, "website", submitted.website)
               ELSE DOMAIN linesOf(fm, "website") = {}
            /\ oneLine(fm, "avatar", IF avatarName = Undefined THEN << >> ELSE avatarName)
            /\ oneLine(fm, "image", IF imageName = Undefined THEN << >> ELSE imageName)
            /\ oneLine(fm, "draft", "false")

\* C24 witness: a front matter generated without website, avatar and title
\* image: no website line, empty avatar and image lines.
C24_Witness ==
    /\ frontmatter # << >>
    /\ submitted.website = ""
    /\ submitted.candidate = CandidateName
    /\ avatarName = Undefined
    /\ imageName = Undefined
    /\ \A n \in 1..Len(frontmatter[1]) : frontmatter[1][n][1] # "website"
    /\ \E n \in 1..Len(frontmatter[1]) : frontmatter[1][n] = <<"avatar", << >>>>
    /\ \E n \in 1..Len(frontmatter[1]) : frontmatter[1][n] = <<"image", << >>>>

\* the await points between createRef and updateRef
BranchAtHead == {"git.getTree", "Promise.all", "git.createTree", "git.createCommit",
                 "git.updateRef"}

\* C25: the branch is created at the sha H that getRef returned, the base
\* tree is the tree of H and the only parent of the new commit is H, so that
\* updateRef moves the branch from H to a child of H; this also holds when
\* the fork's default branch has moved on since getRef.
C25_UpdateRefIsFastForward ==
    /\ [](\A i \in Invocations :
            /\ pc[i] \in BranchAtHead =>
                 /\ plan[i].branchName \in DOMAIN forkRefs
                 /\ forkRefs[plan[i].branchName] = plan[i].refSha
            /\ plan[i].baseTree # Undefined =>
                 plan[i].baseTree = commitOf(plan[i].refSha).tree
            /\ plan[i].newTree # Undefined =>
                 \E t \in forkTrees : /\ t.sha = plan[i].newTree
                                      /\ t.base_tree = commitOf(plan[i].refSha).tree
            /\ plan[i].commit # Undefined =>
                 commitOf(plan[i].commit).parents = <<plan[i].refSha>>)
    /\ [][\A i \in Invocations :
            (pc[i] = "git.updateRef" /\ pc'[i] = "pulls.create") =>
                /\ forkRefs[plan[i].branchName] = plan[i].refSha
                /\ forkRefs'[plan[i].branchName] = plan[i].commit
                /\ commitOf(plan[i].commit).parents = <<forkRefs[plan[i].branchName]>>
                /\ \A r \in DOMAIN forkRefs \ {plan[i].branchName} :
                       forkRefs'[r] = forkRefs[r]]_vars

\* C25 witness: the branch was moved to the new commit, made on the head
\* that getRef returned, after the fork's default branch had left that head.
C25_Witness ==
    /\ pc[1] = "pulls.create"
    /\ plan[1].refSha = BaseCommit
    /\ forkRefs[ForkDefaultBranch] # BaseCommit
    /\ forkRefs[plan[1].branchName] = plan[1].commit
    /\ commitOf(plan[1].commit).parents = <<BaseCommit>>

\* the position of the first occurrence of an event in a trace, 0 if none
firstAt(i, event) ==
    LET at == {n \in 1..Len(trace[i]) : trace[i][n] = event}
    IN  IF at = {} THEN 0 ELSE CHOOSE n \in at : \A m \in at : n <= m

binaryFiles(i) == {k \in 1..Len(plan[i].files) : plan[i].files[k].encoding = "base64"}

AfterBlobsOps == {"git.createTree", "git.createCommit", "git.updateRef", "pulls.create"}

\* C26: in whatever order the createBlob calls complete, createTree is called
\* only after each of them has returned a blob, the tree entries follow the
\* order of the files array and each binary entry carries the sha returned
\* for the blob of its own file; once a createBlob call has failed, none of
\* createTree, createCommit, updateRef and pulls.create is called.
C26_TreeAfterAllBlobs ==
    \A i \in Invocations :
        /\ Logged(i, Call("git.createTree", "")) =>
             \A k \in binaryFiles(i) :
                 /\ firstAt(i, Ok("git.createBlob", DigitChar[k])) > 0
                 /\ firstAt(i, Ok("git.createBlob", DigitChar[k]))
                        < firstAt(i, Call("git.createTree", ""))
        /\ plan[i].newTree # Undefined =>
             \E t \in forkTrees :
                 /\ t.sha = plan[i].newTree
                 /\ Len(t.tree) = Len(plan[i].files)
                 /\ \A k \in 1..Len(plan[i].files) :
                        /\ t.tree[k].path = plan[i].files[k].path
                        /\ k \in binaryFiles(i) =>
                             /\ t.tree[k].sha = blobShaOf(i, k)
                             /\ t.tree[k].sha \in forkBlobs
                             /\ t.tree[k].content = Undefined
                        /\ k \notin binaryFiles(i) =>
                             /\ t.tree[k].sha = Undefined
                             /\ t.tree[k].content = plan[i].files[k].content
        /\ (\E k \in binaryFiles(i) : Logged(i, Err("git.createBlob", DigitChar[k]))) =>
             \A op \in AfterBlobsOps : ~Logged(i, Call(op, ""))

\* C26 witness: the blob of the second file was returned before the blob of
\* the first one, and the tree was created after both.
C26_Witness ==
    /\ plan[1].newTree # Undefined
    /\ binaryFiles(1) = {1, 2}
    /\ firstAt(1, Ok("git.createBlob", "2")) < firstAt(1, Ok("git.createBlob", "1"))
    /\ firstAt(1, Ok("git.createBlob", "1")) < firstAt(1, Call("git.createTree", ""))

\* the branch name createCandidatePR derives for an invocation
derivedBranchName(i) ==
    branchNameOf(slugOf(request[i].submission.candidate), correlationId[i])

\* two invocations that have entered createCandidatePR with the same branch name
sameBranchName(i, j) ==
    /\ i # j
    /\ plan[i] # NoPlan
    /\ plan[j] # NoPlan
    /\ derivedBranchName(i) = derivedBranchName(j)

callsOf(i, op) == {n \in 1..Len(trace[i]) : trace[i][n] = Call(op, "")}

\* C27: of two invocations that derive the same branch name at most one
\* creates the branch; the other one, once it has called createRef, has
\* returned 500 after a single createRef call under the derived name and
\* calls none of getTree, createBlob, createTree, createCommit, updateRef and
\* pulls.create, so that the branch is where the first one has put it.
C27_SameBranchNameOneWinner ==
    \A i, j \in Invocations :
        sameBranchName(i, j) =>
            /\ ~(Logged(i, Ok("git.createRef", "")) /\ Logged(j, Ok("git.createRef", "")))
            /\ (Logged(i, Ok("git.createRef", "")) /\ callsOf(j, "git.createRef") # {}) =>
                 /\ pc[j] = "returned"
                 /\ response[j] = Response500
                 /\ Cardinality(callsOf(j, "git.createRef")) = 1
                 /\ plan[j].branchName = derivedBranchName(j)
                 /\ \A n \in 1..Len(trace[j]) :
                        trace[j][n][2] \notin {"git.getTree", "git.createBlob",
                                               "git.createTree", "git.createCommit",
                                               "git.updateRef", "pulls.create"}
                 /\ DOMAIN forkRefs = {ForkDefaultBranch, derivedBranchName(i)}
                 /\ forkRefs[derivedBranchName(i)] \in {plan[i].refSha, plan[i].commit}

\* C27 witness: two invocations with the same branch name; one has moved the
\* branch to its commit, the other one has failed in createRef with 500.
C27_Witness ==
    /\ sameBranchName(1, 2)
    /\ correlationId[1] # correlationId[2]
    /\ Logged(1, Ok("git.updateRef", ""))
    /\ Logged(2, Err("git.createRef", ""))
    /\ response[2] = Response500
    /\ forkRefs[derivedBranchName(2)] = plan[1].commit

\* the branch names of the other invocations inside createCandidatePR differ
\* from the one of invocation i
ownBranchName(i) ==
    /\ plan[i] # NoPlan
    /\ \A j \in Invocations \ {i} :
           plan[j] # NoPlan => plan[j].branchName # plan[i].branchName

\* C28: in every interleaving of invocations with different branch names, a
\* createRef or updateRef call of an invocation changes no ref but its own
\* branch, and an invocation whose pulls.create has returned has left its
\* branch at its commit, whose tree adds exactly the files of its own
\* submission, and has opened one pull request from its branch under its
\* correlation id.
C28_DifferentBranchesDoNotInterfere ==
    /\ [](\A i \in Invocations :
            (ownBranchName(i) /\ Logged(i, Ok("pulls.create", ""))) =>
                /\ forkRefs[plan[i].branchName] = plan[i].commit
                /\ plan[i].files = filesOf(request[i].submission, plan[i].slug,
                                           plan[i].candidatePath)
                /\ \E t \in forkTrees :
                       /\ t.sha = commitOf(plan[i].commit).tree
                       /\ t.base_tree = BaseTree
                       /\ t.tree = treeItemsOf(plan[i].files,
                                       [k \in 1..Len(plan[i].files) |->
                                          [state |-> "fulfilled", sha |-> blobShaOf(i, k)]])
                /\ Cardinality({n \in 1..Len(pulls) :
                                  pulls[n].head = plan[i].branchName}) = 1
                /\ \E n \in 1..Len(pulls) :
                       /\ pulls[n].head = plan[i].branchName
                       /\ pulls[n].body.correlationId = correlationId[i]
                       /\ pulls[n].html_url = prUrl[i])
    /\ [][\A i \in Invocations :
            (/\ ownBranchName(i)
             /\ pc[i] \in {"git.createRef", "git.updateRef"}
             /\ pc'[i] # pc[i]) =>
                /\ \A r \in DOMAIN forkRefs : r # plan[i].branchName =>
                       r \in DOMAIN forkRefs' /\ forkRefs'[r] = forkRefs[r]
                /\ DOMAIN forkRefs' \subseteq DOMAIN forkRefs \cup {plan[i].branchName}]_vars

\* C28 witness: two invocations on two branches have both opened their pull
\* request, each branch at its own commit.
C28_Witness ==
    /\ plan[1] # NoPlan
    /\ plan[2] # NoPlan
    /\ plan[1].branchName # plan[2].branchName
    /\ Logged(1, Ok("pulls.create", ""))
    /\ Logged(2, Ok("pulls.create", ""))
    /\ forkRefs[plan[1].branchName] = plan[1].commit
    /\ forkRefs[plan[2].branchName] = plan[2].commit
    /\ Len(pulls) = 2

\* the number of entries that precede the inline images in the files array
imagesOffset(submission) ==
    (IF submission.avatarImage # "" THEN 1 ELSE 0)
    + (IF submission.titleImage # "" THEN 1 ELSE 0)

\* C29: createBlob is called for an entry of the files array exactly when
\* the entry is the avatar, the title image or an inline image whose
\* normalized filename does not end in .svg; an inline SVG image is decoded
\* to text and handed to createTree as content; index.md is handed to
\* createTree as text and is the last entry.
C29_BlobsForBinaryFilesOnly ==
    \A i \in Invocations :
        Logged(i, Ok("git.getTree", "")) =>
            LET submission == request[i].submission
                files == plan[i].files
                images == submission.additionalImages
                offset == imagesOffset(submission)
                binary == {k \in 1..Len(files) :
                             Logged(i, Call("git.createBlob", DigitChar[k]))}
            IN  /\ Len(files) = offset + Len(images) + 1
                /\ \A k \in 1..offset : k \in binary
                /\ submission.avatarImage # "" => files[1].content = <<"avatarImage">>
                /\ submission.titleImage # "" => files[offset].content = <<"titleImage">>
                /\ \A m \in 1..Len(images) :
                       LET svg == endsWith(normalizeFilename(originalFilenameOf(images[m].path)),
                                           <<".", "s", "v", "g">>)
                           file == files[offset + m]
                       IN  /\ (offset + m) \in binary <=> ~svg
                           /\ svg => /\ file.encoding = "none"
                                     /\ file.content = <<"utf-8 text of additionalImages",
                                                         DigitChar[m]>>
                           /\ ~svg => /\ file.encoding = "base64"
                                      /\ file.content = <<"additionalImages", DigitChar[m]>>
                /\ Len(files) \notin binary
                /\ files[Len(files)].encoding = "none"
                /\ files[Len(files)].content[1] = "index.md"
                /\ files[Len(files)].path = plan[i].candidatePath \o <<"/", "i", "n", "d", "e", "x", ".", "m", "d">>
                /\ plan[i].newTree # Undefined =>
                     \E t \in forkTrees :
                         /\ t.sha = plan[i].newTree
                         /\ \A k \in 1..Len(files) :
                                k \notin binary => t.tree[k].content = files[k].content

\* C29 witness: of an SVG and a PNG inline image only the PNG got a
\* createBlob call; the tree holds the SVG and index.md as text.
C29_Witness ==
    /\ plan[1].newTree # Undefined
    /\ Len(plan[1].files) = 3
    /\ Len(request[1].submission.additionalImages) = 2
    /\ plan[1].files[1].encoding = "none"
    /\ ~Logged(1, Call("git.createBlob", "1"))
    /\ Logged(1, Call("git.createBlob", "2"))
    /\ ~Logged(1, Call("git.createBlob", "3"))

\* C30: the paths of the entries of the files array are pairwise distinct:
\* no two images share a file, and no image shares the file of index.md, of
\* the avatar or of the title image.
C30_FilePathsPairwiseDistinct ==
    fileSet # << >> =>
        \A k \in 1..Len(fileSet[1]) : \A m \in (k + 1)..Len(fileSet[1]) :
            fileSet[1][k].path # fileSet[1][m].path

\* the calls that write to a repository, pulls.create apart
ForkWriteOps == {"git.createRef", "git.createBlob", "git.createTree", "git.createCommit",
                 "git.updateRef"}

\* the invocation's call of op returns successfully in this step
returnsNow(i, op) ==
    /\ Len(trace'[i]) > Len(trace[i])
    /\ trace'[i][Len(trace'[i])][1] = "ok"
    /\ trace'[i][Len(trace'[i])][2] = op

\* C31: createRef, createBlob, createTree, createCommit and updateRef change
\* the fork repository and nothing of the main repository; the main
\* repository changes only by a pull request that pulls.create adds; the
\* default-branch ref of neither repository is created, moved or deleted.
C31_WritesGoToFork ==
    /\ [](/\ DOMAIN mainRefs = {MainDefaultBranch}
          /\ mainRefs[MainDefaultBranch] = MainCommit
          /\ ForkDefaultBranch \in DOMAIN forkRefs
          /\ forkRefs[ForkDefaultBranch] = BaseCommit)
    /\ [][/\ \A i \in Invocations : \A op \in ForkWriteOps :
                returnsNow(i, op) => /\ fork' # fork
                                     /\ pulls' = pulls
                                     /\ mainRefs' = mainRefs
          /\ pulls' # pulls =>
                /\ \E i \in Invocations : returnsNow(i, "pulls.create")
                /\ Len(pulls') = Len(pulls) + 1
                /\ SubSeq(pulls', 1, Len(pulls)) = pulls
          /\ fork' # fork =>
                \E i \in Invocations : \E op \in ForkWriteOps : returnsNow(i, op)]_vars

\* C31 witness: an invocation has gone through all its writes; its branch
\* is in the fork, its pull request in the main repository, and the two
\* default branches are where they were.
C31_Witness ==
    /\ Logged(1, Ok("pulls.create", ""))
    /\ Len(pulls) = 1
    /\ plan[1].branchName \in DOMAIN forkRefs
    /\ forkRefs[plan[1].branchName] = plan[1].commit
    /\ forkRefs[ForkDefaultBranch] = BaseCommit
    /\ mainRefs = (MainDefaultBranch :> MainCommit)
    /\ forkBlobs # {}

\* C32: an invocation that calls upload has called createIfNotExists before
\* it, itself and successfully, whether or not the container was there; an
\* invocation whose createIfNotExists has failed calls no upload and writes
\* no blob.
C32_ContainerEnsuredBeforeUpload ==
    \A i \in Invocations :
        /\ Logged(i, Call("upload", "")) =>
             /\ firstAt(i, Ok("createIfNotExists", "")) > 0
             /\ firstAt(i, Ok("createIfNotExists", "")) < firstAt(i, Call("upload", ""))
             /\ Cardinality(callsOf(i, "createIfNotExists")) = 1
        /\ Logged(i, Ok("createIfNotExists", "")) => containerExists
        /\ Logged(i, Err("createIfNotExists", "")) =>
             /\ ~Logged(i, Call("upload", ""))
             /\ contactBlobsOf(i) = {}
             /\ pc[i] = "returned"
             /\ response[i] = Response500

\* C32 witness: both invocations have ensured the container, the later of
\* the two finding it there, and both have uploaded their record.
C32_Witness ==
    /\ \A i \in Invocations :
           /\ Logged(i, Ok("createIfNotExists", ""))
           /\ Logged(i, Ok("upload", ""))
    /\ Cardinality(contactBlobs) = 2

\* the directory under which every candidate's files go, with its slash
CandidatesRoot == <<"src/content/english/candidates/">>

\* C33: for every submission that passes the required-field checks, the
\* first lines of createCandidatePR throw nothing and give a non-empty slug
\* over [a-z0-9-], a year that is the 4 leading digits of the election date,
\* and the directory {root}/{year}/{slug}.
C33_WellFormedPlan ==
    planned # << >> =>
        LET p == planned[1].plan
            year == SubSeq(validated.electionDate, 1, 4)
        IN  /\ ~planned[1].threw
            /\ p.slug # << >>
            /\ \A k \in 1..Len(p.slug) : p.slug[k] \in Alnum \cup {"-"}
            /\ Len(validated.electionDate) >= 4
            /\ \A k \in 1..4 : validated.electionDate[k] \in Alnum \ {LowerCase[n] : n \in 1..26}
            /\ p.candidatePath = CandidatesRoot \o year \o <<"/">> \o p.slug

\* C34: for every inline image, in whatever position of additionalImages,
\* each image reference of the body that names the image's path or its bare
\* file name in one of the three forms comes out, in the body written to
\* index.md, with exactly the normalized file name under which the image is
\* committed.
C34_BodyReferencesCommittedFilename ==
    rewritten # << >> =>
        \A m \in 1..Len(assets) : \A n \in 1..Len(markdown) :
            LET originalFilename == originalFilenameOf(assets[m].path)
            IN  (/\ markdown[n].kind = "image"
                 /\ markdown[n].target \in formsOf(assets[m].path) \cup formsOf(originalFilename))
                    => /\ rewritten[1][n].kind = "image"
                       /\ rewritten[1][n].target = normalizeFilename(originalFilename)

\* the statuses submitCandidate returns
Statuses == {204, 200, 400, 401, 500}

\* C35: when every awaited call settles, every invocation that has received
\* a request returns; it returns once, with one response whose status is
\* 204, 200, 400, 401 or 500, and every error thrown on the way ends in the
\* catch block's response.
C35_EveryInvocationReturnsOneResponse ==
    /\ \A i \in Invocations : (pc[i] # "idle") ~> (pc[i] = "returned")
    /\ [](\A i \in Invocations :
            /\ request[i] # NoRequest =>
                   ((pc[i] = "returned") <=> (response[i] # NoResponse))
            /\ response[i] # NoResponse => response[i].status \in Statuses
            /\ (trace[i] # << >> /\ trace[i][Len(trace[i])][1] = "err")
                   => (pc[i] = "returned" /\ response[i].status = 500))
    /\ [][\A i \in Invocations :
            pc[i] = "returned" => (pc'[i] = "returned" /\ response'[i] = response[i])]_vars

\* C35 witness: an invocation whose createBlob call was rejected has
\* returned, and its response is the 500 of the catch block.
C35_Witness ==
    /\ pc[1] = "returned"
    /\ response[1].status = 500
    /\ trace[1] # << >>
    /\ trace[1][Len(trace[1])][1] = "err"
    /\ trace[1][Len(trace[1])][2] = "git.createBlob"

\* the POST requests whose body request.json() cannot parse
unparseablePost(i) == request[i].method = "POST" /\ ~request[i].parseable

\* C36: an invocation whose POST body cannot be parsed awaits request.json()
\* and then returns the 500 of the catch block, never a 400; it calls neither
\* the verification oracle nor the hosting API nor the object store, and it
\* mints no correlation id.
C36_UnparseableBodyEndsIn500 ==
    \A i \in Invocations :
        unparseablePost(i) =>
            /\ pc[i] \in {"request.json", "returned"}
            /\ pc[i] = "returned" => response[i] = Response500
            /\ trace[i] = << >>
            /\ mints[i] = << >>
            /\ correlationId[i] = Undefined
            /\ plan[i] = NoPlan

\* C36 witness: the first invocation has answered an unparseable POST with 500
\* while the second one has stored the contact details of its own submission.
C36_Witness ==
    /\ unparseablePost(1)
    /\ pc[1] = "returned"
    /\ response[1].status = 500
    /\ contactBlobs # {}

\* C37: the Access-Control-Allow-Origin header is a member of the configured
\* allow-list: the request's own origin when it is listed, otherwise the
\* first origin of the list; it is never a wildcard, an origin that is not
\* listed, or undefined.
C37_AllowOriginIsListed ==
    corsOrigin # << >> =>
        LET allowed == allowedOriginsOf(configured)
            listed(o) == \E k \in 1..Len(allowed) : allowed[k] = o
        IN  /\ listed(corsOrigin[1])
            /\ corsOrigin[1] = IF listed(requestOrigin) THEN requestOrigin ELSE allowed[1]
            /\ corsOrigin[1] # <<"*">>
            /\ corsOrigin[1] # Undefined

\* C38: whatever the visitor has typed, added, removed and edited, the tag
\* list holds no tag twice and no empty tag, formatTag leaves every tag of
\* the list as it is, and the tags submitted are the tags of the list.
C38_TagsDistinctAndNormalized ==
    /\ \A j, k \in 1..Len(currentTags) : j # k => currentTags[j] # currentTags[k]
    /\ \A k \in 1..Len(currentTags) :
          /\ currentTags[k] # << >>
          /\ formatTag(currentTags[k]) = currentTags[k]
    /\ formattedTags # << >> => formattedTags[1] = currentTags
====
